---- MODULE Spec2Model ----
(***************************************************************************)
(* MPMC_PacketQueue (src/mpmc_packet_queue.h): a bounded multi-producer /   *)
(* multi-consumer ring of sequenced slots.  Every atomic access of a method *)
(* is one step of the calling thread; the thread-local computation between  *)
(* two atomic accesses belongs to the step of the access that precedes it.  *)
(* The plain (non-atomic) access to slot.packet is taken together with the  *)
(* release store of slot.seq that follows it.  With enable_stats_ every     *)
(* fetch_add on a counter is an atomic access, so a step, of its own.       *)
(* Backoff only delays the caller and has no effect on the queue, so its    *)
(* counter is not carried.  The packets are those of the tests, Packet(id). *)
(* size_t is modelled as an unsigned word of WordBits bits.                 *)
(***************************************************************************)
EXTENDS Integers, Sequences, FiniteSets, Bags, TLC

\* ------------------------------------------------------------------ bounds
WordBits == 13
ReqCapacity == 2
NThreads == 2
MaxBatch == 2
\* calls made in one run: all operations mixed, one producer and one consumer,
\* single-threaded use, enqueue / enqueue_batch against dequeue
MaxCalls == 5
MaxCallsSPSC == 6
MaxCallsSeq == 7
MaxCallsEnq == 6
MaxCallsStats == 4
MaxEvents == 2
MaxCallsSeqStats == 5
MaxCallsLockFree == 3
MaxCallsIsolated == 3
MaxCallsPacket == 2
MaxPtr == 1
MaxLength == 1
MaxId == 1
WrapLead == 2
MaxCallsWrap == 6
MaxCallsAllStats == 4
MaxCallsBackoff == 84
MaxCallsFair == 4
MaxCallsFairBatch == 3

\* ------------------------------------------------------- word arithmetic
RECURSIVE Pow2(_)
Pow2(n) == IF n = 0 THEN 1 ELSE 2 * Pow2(n - 1)

SIZE_MAX == Pow2(WordBits) - 1

\* size_t arithmetic is modulo 2^WordBits
Wrap(x) == x % (SIZE_MAX + 1)

\* static_cast<intptr_t>(x)
Signed(x) == IF x > SIZE_MAX \div 2 THEN x - (SIZE_MAX + 1) ELSE x

\* static_cast<intptr_t>(a) - static_cast<intptr_t>(b), in intptr_t
Diff(a, b) == Signed(Wrap(a - b))

RECURSIVE BitAnd(_, _)
BitAnd(a, b) ==
    IF a = 0 \/ b = 0 THEN 0
    ELSE (a % 2) * (b % 2) + 2 * BitAnd(a \div 2, b \div 2)

\* number of significant bits of v: 64 - __builtin_clzll(v) at the modelled width
RECURSIVE BitLen(_)
BitLen(v) == IF v = 0 THEN 0 ELSE 1 + BitLen(v \div 2)

Min(a, b) == IF a < b THEN a ELSE b

\* ---------------------------------------------------------------- Packet
DefaultPacket == [data |-> 0, length |-> 0, priority |-> 0, id |-> 0]

\* explicit Packet(size_t i): the packet of the tests, all other fields default
Packet(i) == [DefaultPacket EXCEPT !.id = i]

\* the source of a move construction / move assignment afterwards
MovedFrom(p) == [p EXCEPT !.data = 0, !.length = 0, !.id = 0]

\* ------------------------------------------------------------- ring core
\* variant: the bit length of v, not of v - 1, is taken
round_up_to_power_of_two_NoDecrement(v) ==
    IF v <= 1 THEN 2
    ELSE IF v > SIZE_MAX \div 2 THEN SIZE_MAX
    ELSE Wrap(Pow2(BitLen(v)))

round_up_to_power_of_two(v) ==
    IF v <= 1 THEN 2
    ELSE IF v > SIZE_MAX \div 2 THEN SIZE_MAX
    ELSE Wrap(Pow2(BitLen(v - 1)))

capacity_ == round_up_to_power_of_two(ReqCapacity)
mask_ == capacity_ - 1

Threads == 1..NThreads
Slots == 0..(capacity_ - 1)

\* buffer_[c & mask_]
SlotIndex(c) == BitAnd(c, mask_)

VARIABLES
    head_seq_, tail_seq_,   \* the two cursors
    seq,                    \* seq[i]: buffer_[i].seq
    packet,                 \* packet[i]: buffer_[i].packet
    enable_stats_, stats_,  \* the statistics block
    pc, loc,                \* each thread's position and locals
    ret,                    \* the call that returned in the last step, with its result
    budget,                 \* calls left to start
    made,                   \* made[t].enqueued: packets accepted so far from thread t, which
                            \* names its next packet; history: made[t].offered, packets it
                            \* has passed to enqueue calls so far
    enq_log,                \* history: reservations of tail, in cursor order (off: the
                            \* count the call had already enqueued when it reserved)
    deq_log,                \* history: packets moved out of slots, in time order
    accepted,               \* history: bag of the ids that enqueue calls reported enqueued
    seen,                   \* history: seen[t].full, seen[t].empty: the queue was full,
                            \* was empty, at some instant of the call of thread t
    fifo, expect            \* reference bounded FIFO and its answer (single-threaded use)

vars == <<head_seq_, tail_seq_, seq, packet, enable_stats_, stats_, pc, loc, ret,
          budget, made, enq_log, deq_log, accepted, seen, fifo, expect>>

queue == <<head_seq_, tail_seq_, seq, packet>>
history == <<enq_log, deq_log, accepted>>
reference == <<fifo, expect>>

\* a thread that has offered no packet yet
NoneMade == [enqueued |-> 0, offered |-> 0]

ZeroStats ==
    [enqueue_attempts |-> 0, enqueue_successes |-> 0, dequeue_attempts |-> 0,
     dequeue_successes |-> 0, batch_enqueues |-> 0, batch_dequeues |-> 0,
     contention_events |-> 0]

IdleLoc == [op |-> "none", cur |-> 0, n |-> 0, i |-> 0, cnt |-> 0, pkts |-> <<>>]
NoRes == [op |-> "none", by |-> 0, ok |-> FALSE, val |-> 0, pkts |-> <<>>, src |-> <<>>,
          full |-> FALSE, empty |-> FALSE]

\* what a thread outside any call has seen of the queue
NotSeen == [full |-> FALSE, empty |-> FALSE]

\* the number of packets logically resident
Resident == Wrap(tail_seq_ - head_seq_)

\* MPMC_PacketQueue(capacity, enable_stats): the state after construction
Construct(enable) ==
    /\ head_seq_ = 0
    /\ tail_seq_ = 0
    /\ seq = [i \in Slots |-> i]
    /\ packet = [i \in Slots |-> DefaultPacket]
    /\ enable_stats_ = enable
    /\ stats_ = ZeroStats

Start(enable, n) ==
    /\ Construct(enable)
    /\ pc = [t \in Threads |-> "idle"]
    /\ loc = [t \in Threads |-> IdleLoc]
    /\ ret = NoRes
    /\ budget = n
    /\ made = [t \in Threads |-> NoneMade]
    /\ enq_log = <<>>
    /\ deq_log = <<>>
    /\ accepted = EmptyBag
    /\ seen = [t \in Threads |-> NotSeen]
    /\ fifo = <<>>
    /\ expect = NoRes

\* ------------------------------------------------------------- bookkeeping
\* variant: the counter is updated whether or not stats are enabled
Bump_Always(c) == [stats_ EXCEPT ![c] = @ + 1]

\* a counter is followed up to MaxEvents
CanCount(c) == enable_stats_ => stats_[c] < MaxEvents

\* variant: a counter is advanced by two
Bump_Twice(c) == IF enable_stats_ THEN [stats_ EXCEPT ![c] = @ + 2] ELSE stats_

\* stats_.<c>.fetch_add(1) when enable_stats_
Bump(c) == IF enable_stats_ THEN [stats_ EXCEPT ![c] = @ + 1] ELSE stats_

IsFullNow(h, t) == Wrap(t - h) >= capacity_

\* thread t takes a step: every thread inside a call notes whether the queue is
\* full at this instant (for a call that starts now, also the instant before)
SawFullAfter(t, u) ==
    IF u = t
    THEN (IF pc[t] = "idle" THEN IsFullNow(head_seq_, tail_seq_) ELSE seen[t].full)
         \/ IsFullNow(head_seq_', tail_seq_')
    ELSE seen[u].full \/ IsFullNow(head_seq_', tail_seq_')

IsEmptyNow(h, t) == Wrap(t - h) = 0

\* the same for the instants at which the queue is empty
SawEmptyAfter(t, u) ==
    IF u = t
    THEN (IF pc[t] = "idle" THEN IsEmptyNow(head_seq_, tail_seq_) ELSE seen[t].empty)
         \/ IsEmptyNow(head_seq_', tail_seq_')
    ELSE seen[u].empty \/ IsEmptyNow(head_seq_', tail_seq_')

Observe(t) ==
    seen' = [u \in Threads |->
                IF pc'[u] = "idle" THEN NotSeen
                ELSE [full |-> SawFullAfter(t, u), empty |-> SawEmptyAfter(t, u)]]

Goto(t, label, l) ==
    /\ pc' = [pc EXCEPT ![t] = label]
    /\ loc' = [loc EXCEPT ![t] = l]
    /\ ret' = NoRes

\* the call of thread t returns: o names the operation, ok and val are its
\* result, pkts the packets it returned, src the caller's packets after the call
Return(t, o, ok, val, pkts, src) ==
    /\ pc' = [pc EXCEPT ![t] = "idle"]
    /\ loc' = [loc EXCEPT ![t] = IdleLoc]
    /\ ret' = [op |-> o, by |-> t, ok |-> ok, val |-> val, pkts |-> pkts, src |-> src,
               full |-> SawFullAfter(t, t), empty |-> SawEmptyAfter(t, t)]

\* a thread outside any call starts one
Begin(t) ==
    /\ pc[t] = "idle"
    /\ budget > 0
    /\ budget' = budget - 1

\* constexpr size_t packets_per_producer
packets_per_producer == 1000

\* create_test_packets(count, start_id): Packet(start_id), Packet(start_id + 1), ...
create_test_packets(count, start) == [j \in 1..count |-> Packet(start + j - 1)]

\* size_t start_id = i * packets_per_producer, for the i-th producer (i = 0, 1, ...)
start_id(t) == (t - 1) * packets_per_producer

\* the packet a producer offers after k of its packets were accepted: Packet(start_id + k)
NewPacket(t, k) == Packet(start_id(t) + k)

\* the packet argument of a single-element enqueue
Arg(t) == loc[t].pkts[1]

\* ----------------------------------------------------------------- enqueue
\* intptr_t diff = seq - tail
EnqueueDiff(s, t) == Diff(s, t)

\* variant: full only when tail - head exceeds the capacity
EnqueueFull_Strict(t, h) == Wrap(t - h) > capacity_

\* tail - head >= capacity_
EnqueueFull(t, h) == Wrap(t - h) >= capacity_

\* variant: the producer publishes the slot one past the value consumers wait for
PublishedSeq_Skip(t) == Wrap(t + 2)

\* slot.seq.store(tail + 1)
PublishedSeq(t) == Wrap(t + 1)

\* variant: tail is stored without comparing it to the snapshot
EnqCasOk_Store(actual, expected) == TRUE

\* compare_exchange_weak(tail, ...): tail_seq_ holds the expected value
EnqCasOk(actual, expected) == actual = expected

\* enqueue(const Packet&) / enqueue(Packet&&): the first atomic access of the
\* call, which is enqueue_attempts.fetch_add(1) when enable_stats_ and the load
\* of tail otherwise.
\* The two overloads are the same code but for the assignment into the slot,
\* which leaves the caller's packet as it was (copy) or moved from (move): one
\* call stands for both, and returns the caller's packet after either of them.
EnqCallCore(t) ==
    /\ Begin(t)
    /\ made' = [made EXCEPT ![t].offered = @ + 1]
    /\ stats_' = Bump("enqueue_attempts")
    /\ UNCHANGED <<queue, enable_stats_, history>>
    /\ IF enable_stats_
       THEN Goto(t, "enq_tail", [IdleLoc EXCEPT !.op = "enqueue",
                                               !.pkts = <<NewPacket(t, made[t].enqueued)>>])
       ELSE Goto(t, "enq_seq", [IdleLoc EXCEPT !.op = "enqueue", !.cur = tail_seq_,
                                              !.pkts = <<NewPacket(t, made[t].enqueued)>>])
    /\ Observe(t)

EnqCall(t) == EnqCallCore(t) /\ UNCHANGED reference

\* size_t tail = tail_seq_.load(), after the attempt was counted
EnqTail(t) ==
    /\ pc[t] = "enq_tail"
    /\ UNCHANGED <<queue, enable_stats_, stats_, budget, made, history, reference>>
    /\ Goto(t, "enq_seq", [loc[t] EXCEPT !.cur = tail_seq_])
    /\ Observe(t)

\* load slot.seq and branch on diff
EnqSeq(t) ==
    /\ pc[t] = "enq_seq"
    /\ UNCHANGED <<queue, enable_stats_, stats_, budget, made, history, reference>>
    /\ LET d == EnqueueDiff(seq[SlotIndex(loc[t].cur)], loc[t].cur)
       IN  Goto(t, IF d = 0 THEN "enq_cas" ELSE IF d < 0 THEN "enq_head" ELSE "enq_reload",
                loc[t])
    /\ Observe(t)

\* tail_seq_.compare_exchange_weak(tail, tail + 1): may fail spuriously
EnqCas(t) ==
    /\ pc[t] = "enq_cas"
    /\ UNCHANGED <<head_seq_, seq, packet, enable_stats_, stats_, budget, made,
                   deq_log, accepted, reference>>
    /\ \E spurious \in BOOLEAN :
          IF EnqCasOk(tail_seq_, loc[t].cur) /\ ~spurious
          THEN /\ tail_seq_' = Wrap(loc[t].cur + 1)
               /\ enq_log' = Append(enq_log, [cur |-> loc[t].cur, pkt |-> Arg(t), by |-> t, off |-> 0])
               /\ Goto(t, "enq_write", loc[t])
          ELSE /\ UNCHANGED <<tail_seq_, enq_log>>
               /\ Goto(t, "enq_seq", [loc[t] EXCEPT !.cur = tail_seq_])
    /\ Observe(t)

\* slot.packet = packet; slot.seq.store(tail + 1); then return true, or go on
\* to count the success when enable_stats_
EnqWrite(t) ==
    /\ pc[t] = "enq_write"
    /\ packet' = [packet EXCEPT ![SlotIndex(loc[t].cur)] = Arg(t)]
    /\ seq' = [seq EXCEPT ![SlotIndex(loc[t].cur)] = PublishedSeq(loc[t].cur)]
    /\ UNCHANGED <<head_seq_, tail_seq_, enable_stats_, stats_, budget, enq_log,
                   deq_log, reference>>
    /\ IF enable_stats_
       THEN /\ UNCHANGED <<accepted, made>>
            /\ Goto(t, "enq_count", loc[t])
       ELSE /\ accepted' = accepted (+) SetToBag({Arg(t).id})
            /\ made' = [made EXCEPT ![t].enqueued = @ + 1]
            /\ Return(t, "enqueue", TRUE, 0, <<>>,
                      [copy |-> Arg(t), move |-> MovedFrom(Arg(t))])
    /\ Observe(t)

\* enqueue_successes.fetch_add(1); return true
EnqCount(t) ==
    /\ pc[t] = "enq_count"
    /\ stats_' = Bump("enqueue_successes")
    /\ accepted' = accepted (+) SetToBag({Arg(t).id})
    /\ made' = [made EXCEPT ![t].enqueued = @ + 1]
    /\ UNCHANGED <<queue, enable_stats_, budget, enq_log, deq_log, reference>>
    /\ Return(t, "enqueue", TRUE, 0, <<>>, [copy |-> Arg(t), move |-> MovedFrom(Arg(t))])
    /\ Observe(t)

\* variant: a refused enqueue(Packet&&) has moved from the caller's packet
EnqHead_Consumes(t) ==
    /\ pc[t] = "enq_head"
    /\ UNCHANGED <<queue, enable_stats_, stats_, budget, made, history, reference>>
    /\ IF EnqueueFull(loc[t].cur, head_seq_)
       THEN Return(t, "enqueue", FALSE, 0, <<>>, [copy |-> Arg(t), move |-> MovedFrom(Arg(t))])
       ELSE Goto(t, IF enable_stats_ THEN "enq_contend" ELSE "enq_reload", loc[t])
    /\ Observe(t)

\* diff < 0: load head; full -> return false, else retry, after counting the
\* contention when enable_stats_
EnqHead(t) ==
    /\ pc[t] = "enq_head"
    /\ UNCHANGED <<queue, enable_stats_, stats_, budget, made, history, reference>>
    /\ IF EnqueueFull(loc[t].cur, head_seq_)
       THEN Return(t, "enqueue", FALSE, 0, <<>>, [copy |-> Arg(t), move |-> Arg(t)])
       ELSE Goto(t, IF enable_stats_ THEN "enq_contend" ELSE "enq_reload", loc[t])
    /\ Observe(t)

\* contention_events.fetch_add(1), in enqueue
EnqContend(t) ==
    /\ pc[t] = "enq_contend"
    /\ CanCount("contention_events")
    /\ stats_' = Bump("contention_events")
    /\ UNCHANGED <<queue, enable_stats_, budget, made, history, reference>>
    /\ Goto(t, "enq_reload", loc[t])
    /\ Observe(t)

\* backoff(); tail = tail_seq_.load()
EnqReload(t) ==
    /\ pc[t] = "enq_reload"
    /\ UNCHANGED <<queue, enable_stats_, stats_, budget, made, history, reference>>
    /\ Goto(t, "enq_seq", [loc[t] EXCEPT !.cur = tail_seq_])
    /\ Observe(t)

\* ----------------------------------------------------------------- dequeue
\* variant: the slot is compared with head, not head + 1
DequeueDiff_Head(s, h) == Diff(s, h)

\* intptr_t diff = seq - (head + 1)
DequeueDiff(s, h) == Diff(s, Wrap(h + 1))

\* variant: empty already when one packet is left
DequeueEmpty_OneLeft(h, t) == h + 1 >= t

\* head >= tail
DequeueEmpty(h, t) == h >= t

\* variant: the consumer leaves the slot at the value it found
ReleasedSeq_Kept(h) == Wrap(h + 1)

\* slot.seq.store(head + capacity_)
ReleasedSeq(h) == Wrap(h + capacity_)

\* variant: head is stored without comparing it to the snapshot
DeqCasOk_Store(actual, expected) == TRUE

\* compare_exchange_weak(head, ...): head_seq_ holds the expected value
DeqCasOk(actual, expected) == actual = expected

\* dequeue(): the first atomic access of the call, which is
\* dequeue_attempts.fetch_add(1) when enable_stats_ and the load of head otherwise
DeqCallCore(t) ==
    /\ Begin(t)
    /\ stats_' = Bump("dequeue_attempts")
    /\ UNCHANGED <<queue, enable_stats_, made, history>>
    /\ IF enable_stats_
       THEN Goto(t, "deq_head", [IdleLoc EXCEPT !.op = "dequeue"])
       ELSE Goto(t, "deq_seq", [IdleLoc EXCEPT !.op = "dequeue", !.cur = head_seq_])
    /\ Observe(t)

DeqCall(t) == DeqCallCore(t) /\ UNCHANGED reference

\* size_t head = head_seq_.load(), after the attempt was counted
DeqHead(t) ==
    /\ pc[t] = "deq_head"
    /\ UNCHANGED <<queue, enable_stats_, stats_, budget, made, history, reference>>
    /\ Goto(t, "deq_seq", [loc[t] EXCEPT !.cur = head_seq_])
    /\ Observe(t)

\* load slot.seq and branch on diff
DeqSeq(t) ==
    /\ pc[t] = "deq_seq"
    /\ UNCHANGED <<queue, enable_stats_, stats_, budget, made, history, reference>>
    /\ LET d == DequeueDiff(seq[SlotIndex(loc[t].cur)], loc[t].cur)
       IN  Goto(t, IF d = 0 THEN "deq_cas" ELSE IF d < 0 THEN "deq_tail" ELSE "deq_reload",
                loc[t])
    /\ Observe(t)

\* head_seq_.compare_exchange_weak(head, head + 1): may fail spuriously
DeqCas(t) ==
    /\ pc[t] = "deq_cas"
    /\ UNCHANGED <<tail_seq_, seq, packet, enable_stats_, stats_, budget, made,
                   history, reference>>
    /\ \E spurious \in BOOLEAN :
          IF DeqCasOk(head_seq_, loc[t].cur) /\ ~spurious
          THEN /\ head_seq_' = Wrap(loc[t].cur + 1)
               /\ Goto(t, "deq_read", loc[t])
          ELSE /\ UNCHANGED head_seq_
               /\ Goto(t, "deq_seq", [loc[t] EXCEPT !.cur = head_seq_])
    /\ Observe(t)

\* Packet packet = std::move(slot.packet); slot.seq.store(head + capacity_);
\* then return packet, or go on to count the success when enable_stats_
DeqRead(t) ==
    /\ pc[t] = "deq_read"
    /\ UNCHANGED <<head_seq_, tail_seq_, enable_stats_, stats_, budget, made, enq_log,
                   accepted, reference>>
    /\ LET i == SlotIndex(loc[t].cur)
       IN  /\ packet' = [packet EXCEPT ![i] = MovedFrom(packet[i])]
           /\ seq' = [seq EXCEPT ![i] = ReleasedSeq(loc[t].cur)]
           /\ deq_log' = Append(deq_log, [cur |-> loc[t].cur, pkt |-> packet[i], by |-> t])
           /\ IF enable_stats_
              THEN Goto(t, "deq_count", [loc[t] EXCEPT !.pkts = <<packet[i]>>])
              ELSE Return(t, "dequeue", TRUE, 0, <<packet[i]>>, <<>>)
    /\ Observe(t)

\* dequeue_successes.fetch_add(1); return packet
DeqCount(t) ==
    /\ pc[t] = "deq_count"
    /\ stats_' = Bump("dequeue_successes")
    /\ UNCHANGED <<queue, enable_stats_, budget, made, history, reference>>
    /\ Return(t, "dequeue", TRUE, 0, loc[t].pkts, <<>>)
    /\ Observe(t)

\* diff < 0: load tail; empty -> return nullopt, else retry, after counting the
\* contention when enable_stats_
DeqTail(t) ==
    /\ pc[t] = "deq_tail"
    /\ UNCHANGED <<queue, enable_stats_, stats_, budget, made, history, reference>>
    /\ IF DequeueEmpty(loc[t].cur, tail_seq_)
       THEN Return(t, "dequeue", FALSE, 0, <<>>, <<>>)
       ELSE Goto(t, IF enable_stats_ THEN "deq_contend" ELSE "deq_reload", loc[t])
    /\ Observe(t)

\* contention_events.fetch_add(1), in dequeue
DeqContend(t) ==
    /\ pc[t] = "deq_contend"
    /\ CanCount("contention_events")
    /\ stats_' = Bump("contention_events")
    /\ UNCHANGED <<queue, enable_stats_, budget, made, history, reference>>
    /\ Goto(t, "deq_reload", loc[t])
    /\ Observe(t)

\* backoff(); head = head_seq_.load()
DeqReload(t) ==
    /\ pc[t] = "deq_reload"
    /\ UNCHANGED <<queue, enable_stats_, stats_, budget, made, history, reference>>
    /\ Goto(t, "deq_seq", [loc[t] EXCEPT !.cur = head_seq_])
    /\ Observe(t)

\* ------------------------------------------------- try_enqueue / try_dequeue
\* variant: a slot still holding an unconsumed packet counts as free
TryEnqReady_NotAhead(s, t) == s <= t

\* seq == tail
TryEnqReady(s, t) == s = t

\* compare_exchange_strong(tail, tail + 1): tail_seq_ holds the expected value
TryEnqCasOk(actual, expected) == actual = expected

\* seq == head + 1
TryDeqReady(s, h) == s = Wrap(h + 1)

\* compare_exchange_strong(head, head + 1): head_seq_ holds the expected value
TryDeqCasOk(actual, expected) == actual = expected

\* try_enqueue(): load tail
TryEnqCallCore(t) ==
    /\ Begin(t)
    /\ made' = [made EXCEPT ![t].offered = @ + 1]
    /\ UNCHANGED <<queue, enable_stats_, stats_, history>>
    /\ Goto(t, "te_seq", [IdleLoc EXCEPT !.op = "try_enqueue", !.cur = tail_seq_,
                                        !.pkts = <<NewPacket(t, made[t].enqueued)>>])
    /\ Observe(t)

TryEnqCall(t) == TryEnqCallCore(t) /\ UNCHANGED reference

\* load slot.seq; seq == tail fails -> return false
TryEnqSeq(t) ==
    /\ pc[t] = "te_seq"
    /\ UNCHANGED <<queue, enable_stats_, stats_, budget, made, history, reference>>
    /\ IF TryEnqReady(seq[SlotIndex(loc[t].cur)], loc[t].cur)
       THEN Goto(t, "te_cas", loc[t])
       ELSE Return(t, "try_enqueue", FALSE, 0, <<>>, <<Arg(t)>>)
    /\ Observe(t)

\* variant: a failed compare-exchange reloads tail and tries again
TryEnqCas_Again(t) ==
    /\ pc[t] = "te_cas"
    /\ UNCHANGED <<head_seq_, seq, packet, enable_stats_, stats_, budget, made,
                   deq_log, accepted, reference>>
    /\ IF TryEnqCasOk(tail_seq_, loc[t].cur)
       THEN /\ tail_seq_' = Wrap(loc[t].cur + 1)
            /\ enq_log' = Append(enq_log, [cur |-> loc[t].cur, pkt |-> Arg(t), by |-> t, off |-> 0])
            /\ Goto(t, "te_write", loc[t])
       ELSE /\ UNCHANGED <<tail_seq_, enq_log>>
            /\ Goto(t, "te_seq", [loc[t] EXCEPT !.cur = tail_seq_])
    /\ Observe(t)

\* tail_seq_.compare_exchange_strong(tail, tail + 1); failure -> return false
TryEnqCas(t) ==
    /\ pc[t] = "te_cas"
    /\ UNCHANGED <<head_seq_, seq, packet, enable_stats_, stats_, budget, made,
                   deq_log, accepted, reference>>
    /\ IF TryEnqCasOk(tail_seq_, loc[t].cur)
       THEN /\ tail_seq_' = Wrap(loc[t].cur + 1)
            /\ enq_log' = Append(enq_log, [cur |-> loc[t].cur, pkt |-> Arg(t), by |-> t, off |-> 0])
            /\ Goto(t, "te_write", loc[t])
       ELSE /\ UNCHANGED <<tail_seq_, enq_log>>
            /\ Return(t, "try_enqueue", FALSE, 0, <<>>, <<Arg(t)>>)
    /\ Observe(t)

\* slot.packet = packet; slot.seq.store(tail + 1); return true
TryEnqWrite(t) ==
    /\ pc[t] = "te_write"
    /\ packet' = [packet EXCEPT ![SlotIndex(loc[t].cur)] = Arg(t)]
    /\ seq' = [seq EXCEPT ![SlotIndex(loc[t].cur)] = Wrap(loc[t].cur + 1)]
    /\ accepted' = accepted (+) SetToBag({Arg(t).id})
    /\ made' = [made EXCEPT ![t].enqueued = @ + 1]
    /\ UNCHANGED <<head_seq_, tail_seq_, enable_stats_, stats_, budget, enq_log,
                   deq_log, reference>>
    /\ Return(t, "try_enqueue", TRUE, 0, <<>>, <<Arg(t)>>)
    /\ Observe(t)

\* try_dequeue(): load head
TryDeqCallCore(t) ==
    /\ Begin(t)
    /\ UNCHANGED <<queue, enable_stats_, stats_, made, history>>
    /\ Goto(t, "td_seq", [IdleLoc EXCEPT !.op = "try_dequeue", !.cur = head_seq_])
    /\ Observe(t)

TryDeqCall(t) == TryDeqCallCore(t) /\ UNCHANGED reference

\* load slot.seq; seq == head + 1 fails -> return nullopt
TryDeqSeq(t) ==
    /\ pc[t] = "td_seq"
    /\ UNCHANGED <<queue, enable_stats_, stats_, budget, made, history, reference>>
    /\ IF TryDeqReady(seq[SlotIndex(loc[t].cur)], loc[t].cur)
       THEN Goto(t, "td_cas", loc[t])
       ELSE Return(t, "try_dequeue", FALSE, 0, <<>>, <<>>)
    /\ Observe(t)

\* head_seq_.compare_exchange_strong(head, head + 1); failure -> return nullopt
TryDeqCas(t) ==
    /\ pc[t] = "td_cas"
    /\ UNCHANGED <<tail_seq_, seq, packet, enable_stats_, stats_, budget, made,
                   history, reference>>
    /\ IF TryDeqCasOk(head_seq_, loc[t].cur)
       THEN /\ head_seq_' = Wrap(loc[t].cur + 1)
            /\ Goto(t, "td_read", loc[t])
       ELSE /\ UNCHANGED head_seq_
            /\ Return(t, "try_dequeue", FALSE, 0, <<>>, <<>>)
    /\ Observe(t)

\* Packet packet = std::move(slot.packet); slot.seq.store(head + capacity_); return it
TryDeqRead(t) ==
    /\ pc[t] = "td_read"
    /\ UNCHANGED <<head_seq_, tail_seq_, enable_stats_, stats_, budget, made, enq_log,
                   accepted, reference>>
    /\ LET i == SlotIndex(loc[t].cur)
       IN  /\ packet' = [packet EXCEPT ![i] = MovedFrom(packet[i])]
           /\ seq' = [seq EXCEPT ![i] = Wrap(loc[t].cur + capacity_)]
           /\ deq_log' = Append(deq_log, [cur |-> loc[t].cur, pkt |-> packet[i], by |-> t])
           /\ Return(t, "try_dequeue", TRUE, 0, <<packet[i]>>, <<>>)
    /\ Observe(t)

\* ----------------------------------------------------------- enqueue_batch
\* tail - head >= capacity_
BatchFull(t, h) == Wrap(t - h) >= capacity_

\* variant: the reservation is not clamped to the free space
EnqBatchSize_Unclamped(total, count, t, h) == total - count

\* batch_size = min(packets.size() - enqueued_count, capacity_ - (tail - head))
EnqBatchSize(total, count, t, h) == Min(total - count, Wrap(capacity_ - Wrap(t - h)))

\* compare_exchange_weak(tail, tail + batch_size): tail_seq_ holds the expected value
EnqBatchCasOk(actual, expected) == actual = expected

\* the wait on the i-th reserved slot ends: slot.seq == tail + i
EnqBatchReady(s, c) == s = c

\* variant: a later reservation starts again at the first input packet
EnqBatchItem_NoOffset(pkts, count, i) == pkts[i + 1]

\* the packet written into the i-th reserved slot: packets[enqueued_count + i]
EnqBatchItem(pkts, count, i) == pkts[count + i + 1]

\* the ids of the first k packets of a range, as a bag
RECURSIVE Prefix(_, _)
Prefix(pkts, k) == IF k = 0 THEN EmptyBag ELSE Prefix(pkts, k - 1) (+) SetToBag({pkts[k].id})

\* enqueue_batch(packets): empty -> return 0; else the first atomic access of
\* the call, which is batch_enqueues.fetch_add(1) when enable_stats_ and the
\* load of tail at the top of the loop otherwise
EnqBatchCallCore(t) ==
    /\ Begin(t)
    /\ UNCHANGED <<queue, enable_stats_, history>>
    /\ \E n \in 0..MaxBatch :
          IF n = 0
          THEN /\ UNCHANGED <<made, stats_>>
               /\ Return(t, "enqueue_batch", TRUE, 0, <<>>, <<>>)
          ELSE /\ made' = [made EXCEPT ![t].offered = @ + n]
               /\ stats_' = Bump("batch_enqueues")
               /\ IF enable_stats_
                  THEN Goto(t, "eb_tail",
                            [IdleLoc EXCEPT !.op = "enqueue_batch",
                                 !.pkts = create_test_packets(n, start_id(t) + made[t].enqueued)])
                  ELSE Goto(t, "eb_head",
                            [IdleLoc EXCEPT !.op = "enqueue_batch", !.cur = tail_seq_,
                                 !.pkts = create_test_packets(n, start_id(t) + made[t].enqueued)])
    /\ Observe(t)

EnqBatchCall(t) == EnqBatchCallCore(t) /\ UNCHANGED reference

\* the top of the loop: load tail (after backoff() when the loop went round)
EnqBatchTail(t) ==
    /\ pc[t] = "eb_tail"
    /\ UNCHANGED <<queue, enable_stats_, stats_, budget, made, history, reference>>
    /\ Goto(t, "eb_head", [loc[t] EXCEPT !.cur = tail_seq_])
    /\ Observe(t)

\* load head; full -> break and return the count; else fix batch_size
EnqBatchHead(t) ==
    /\ pc[t] = "eb_head"
    /\ UNCHANGED <<queue, enable_stats_, stats_, budget, enq_log, deq_log, reference>>
    /\ LET k == EnqBatchSize(Len(loc[t].pkts), loc[t].cnt, loc[t].cur, head_seq_)
       IN  IF BatchFull(loc[t].cur, head_seq_)
           THEN /\ accepted' = accepted (+) Prefix(loc[t].pkts, loc[t].cnt)
                /\ made' = [made EXCEPT ![t].enqueued = @ + loc[t].cnt]
                /\ Return(t, "enqueue_batch", TRUE, loc[t].cnt, <<>>, loc[t].pkts)
           ELSE /\ UNCHANGED <<accepted, made>>
                /\ IF k = 0
                   THEN Goto(t, "eb_tail", loc[t])
                   ELSE Goto(t, "eb_cas", [loc[t] EXCEPT !.n = k])
    /\ Observe(t)

\* tail_seq_.compare_exchange_weak(tail, tail + batch_size): may fail spuriously
EnqBatchCas(t) ==
    /\ pc[t] = "eb_cas"
    /\ UNCHANGED <<head_seq_, seq, packet, enable_stats_, stats_, budget, made,
                   deq_log, accepted, reference>>
    /\ \E spurious \in BOOLEAN :
          IF EnqBatchCasOk(tail_seq_, loc[t].cur) /\ ~spurious
          THEN /\ tail_seq_' = Wrap(loc[t].cur + loc[t].n)
               /\ enq_log' = enq_log \o
                      [j \in 1..loc[t].n |->
                          [cur |-> Wrap(loc[t].cur + j - 1),
                           pkt |-> loc[t].pkts[loc[t].cnt + j], by |-> t,
                           off |-> loc[t].cnt]]
               /\ Goto(t, "eb_fill", [loc[t] EXCEPT !.i = 0])
          ELSE /\ UNCHANGED <<tail_seq_, enq_log>>
               /\ Goto(t, "eb_tail", [loc[t] EXCEPT !.n = 0])
    /\ Observe(t)

\* the i-th reserved slot: wait for slot.seq == tail + i, assign the packet,
\* slot.seq.store(tail + i + 1); after the last one add batch_size to the count
\* and either return it or go round the loop
EnqBatchFill(t) ==
    /\ pc[t] = "eb_fill"
    /\ LET c == Wrap(loc[t].cur + loc[t].i)
           done == loc[t].i + 1 = loc[t].n
           count == IF done THEN loc[t].cnt + loc[t].n ELSE loc[t].cnt
       IN  /\ EnqBatchReady(seq[SlotIndex(c)], c)
           /\ packet' = [packet EXCEPT
                            ![SlotIndex(c)] = EnqBatchItem(loc[t].pkts, loc[t].cnt, loc[t].i)]
           /\ seq' = [seq EXCEPT ![SlotIndex(c)] = Wrap(c + 1)]
           /\ UNCHANGED <<head_seq_, tail_seq_, enable_stats_, stats_, budget,
                          enq_log, deq_log, reference>>
           /\ IF done /\ count >= Len(loc[t].pkts)
              THEN /\ accepted' = accepted (+) Prefix(loc[t].pkts, count)
                   /\ made' = [made EXCEPT ![t].enqueued = @ + count]
                   /\ Return(t, "enqueue_batch", TRUE, count, <<>>, loc[t].pkts)
              ELSE /\ UNCHANGED <<accepted, made>>
                   /\ IF done
                      THEN Goto(t, "eb_tail", [loc[t] EXCEPT !.cnt = count, !.n = 0, !.i = 0])
                      ELSE Goto(t, "eb_fill", [loc[t] EXCEPT !.i = @ + 1])
    /\ Observe(t)

\* ----------------------------------------------------------- dequeue_batch
\* head >= tail
BatchEmpty(h, t) == h >= t

\* batch_size = min(packets.size() - dequeued_count, tail - head)
DeqBatchSize(total, count, h, t) == Min(total - count, Wrap(t - h))

\* variant: head is stored without comparing it to the snapshot
DeqBatchCasOk_Store(actual, expected) == TRUE

\* compare_exchange_weak(head, head + batch_size): head_seq_ holds the expected value
DeqBatchCasOk(actual, expected) == actual = expected

\* variant: the consumer waits for the value of a slot that is still empty
DeqBatchReady_Empty(s, c) == s = c

\* the wait on the i-th reserved slot ends: slot.seq == head + i + 1
DeqBatchReady(s, c) == s = Wrap(c + 1)

\* variant: every packet of a reservation lands in its first output place
DeqBatchPlace_First(count, i) == count + 1

\* the place of the i-th packet of a reservation in the caller's range:
\* packets[dequeued_count + i]
DeqBatchPlace(count, i) == count + i + 1

\* dequeue_batch(packets): empty -> return 0; else the first atomic access of
\* the call, which is batch_dequeues.fetch_add(1) when enable_stats_ and the
\* load of head at the top of the loop otherwise
DeqBatchCallCore(t) ==
    /\ Begin(t)
    /\ UNCHANGED <<queue, enable_stats_, made, history>>
    /\ \E m \in 0..MaxBatch :
          IF m = 0
          THEN /\ UNCHANGED stats_
               /\ Return(t, "dequeue_batch", TRUE, 0, <<>>, <<>>)
          ELSE /\ stats_' = Bump("batch_dequeues")
               /\ IF enable_stats_
                  THEN Goto(t, "db_head",
                            [IdleLoc EXCEPT !.op = "dequeue_batch",
                                 !.pkts = [j \in 1..m |-> DefaultPacket]])
                  ELSE Goto(t, "db_tail",
                            [IdleLoc EXCEPT !.op = "dequeue_batch", !.cur = head_seq_,
                                 !.pkts = [j \in 1..m |-> DefaultPacket]])
    /\ Observe(t)

DeqBatchCall(t) == DeqBatchCallCore(t) /\ UNCHANGED reference

\* the top of the loop: load head (after backoff() when the loop went round)
DeqBatchHead(t) ==
    /\ pc[t] = "db_head"
    /\ UNCHANGED <<queue, enable_stats_, stats_, budget, made, history, reference>>
    /\ Goto(t, "db_tail", [loc[t] EXCEPT !.cur = head_seq_])
    /\ Observe(t)

\* load tail; empty -> break and return the count; else fix batch_size
DeqBatchTail(t) ==
    /\ pc[t] = "db_tail"
    /\ UNCHANGED <<queue, enable_stats_, stats_, budget, made, history, reference>>
    /\ LET k == DeqBatchSize(Len(loc[t].pkts), loc[t].cnt, loc[t].cur, tail_seq_)
       IN  IF BatchEmpty(loc[t].cur, tail_seq_)
           THEN Return(t, "dequeue_batch", TRUE, loc[t].cnt, loc[t].pkts, <<>>)
           ELSE IF k = 0
                THEN Goto(t, "db_head", loc[t])
                ELSE Goto(t, "db_cas", [loc[t] EXCEPT !.n = k])
    /\ Observe(t)

\* head_seq_.compare_exchange_weak(head, head + batch_size): may fail spuriously
DeqBatchCas(t) ==
    /\ pc[t] = "db_cas"
    /\ UNCHANGED <<tail_seq_, seq, packet, enable_stats_, stats_, budget, made,
                   history, reference>>
    /\ \E spurious \in BOOLEAN :
          IF DeqBatchCasOk(head_seq_, loc[t].cur) /\ ~spurious
          THEN /\ head_seq_' = Wrap(loc[t].cur + loc[t].n)
               /\ Goto(t, "db_drain", [loc[t] EXCEPT !.i = 0])
          ELSE /\ UNCHANGED head_seq_
               /\ Goto(t, "db_head", [loc[t] EXCEPT !.n = 0])
    /\ Observe(t)

\* the i-th reserved slot: wait for slot.seq == head + i + 1, move the packet out
\* into packets[dequeued_count + i], slot.seq.store(head + i + capacity_); after
\* the last one add batch_size to the count and either return it or go round
DeqBatchDrain(t) ==
    /\ pc[t] = "db_drain"
    /\ LET c == Wrap(loc[t].cur + loc[t].i)
           s == SlotIndex(c)
           done == loc[t].i + 1 = loc[t].n
           count == IF done THEN loc[t].cnt + loc[t].n ELSE loc[t].cnt
           out == [loc[t].pkts EXCEPT ![DeqBatchPlace(loc[t].cnt, loc[t].i)] = packet[s]]
       IN  /\ DeqBatchReady(seq[s], c)
           /\ packet' = [packet EXCEPT ![s] = MovedFrom(packet[s])]
           /\ seq' = [seq EXCEPT ![s] = Wrap(c + capacity_)]
           /\ deq_log' = Append(deq_log, [cur |-> c, pkt |-> packet[s], by |-> t])
           /\ UNCHANGED <<head_seq_, tail_seq_, enable_stats_, stats_, budget, made,
                          enq_log, accepted, reference>>
           /\ IF done /\ count >= Len(out)
              THEN Return(t, "dequeue_batch", TRUE, count, out, <<>>)
              ELSE IF done
                   THEN Goto(t, "db_head",
                             [loc[t] EXCEPT !.pkts = out, !.cnt = count, !.n = 0, !.i = 0])
                   ELSE Goto(t, "db_drain", [loc[t] EXCEPT !.pkts = out, !.i = @ + 1])
    /\ Observe(t)

\* -------------------------------------------------------- size / empty / full
\* tail - head
SizeOf(t, h) == Wrap(t - h)

\* size(): load tail
SizeCallCore(t) ==
    /\ Begin(t)
    /\ UNCHANGED <<queue, enable_stats_, stats_, made, history>>
    /\ Goto(t, "size_head", [IdleLoc EXCEPT !.op = "size", !.cur = tail_seq_])
    /\ Observe(t)

SizeCall(t) == SizeCallCore(t) /\ UNCHANGED reference

\* empty(): size() == 0
EmptyOf(v) == v = 0

\* full(): size() >= capacity_
FullOf(v) == v >= capacity_

\* load head; return tail - head.  empty() and full() are size() followed by
\* the comparison above: a returned size v stands for their results too
SizeHead(t) ==
    /\ pc[t] = "size_head"
    /\ UNCHANGED <<queue, enable_stats_, stats_, budget, made, history, reference>>
    /\ Return(t, "size", TRUE, SizeOf(loc[t].cur, head_seq_), <<>>, <<>>)
    /\ Observe(t)

\* ------------------------------------------------------------ specification
ProducerStep(t) ==
    \/ EnqSeq(t) \/ EnqCas(t) \/ EnqWrite(t) \/ EnqHead(t) \/ EnqReload(t)
    \/ TryEnqSeq(t) \/ TryEnqCas(t) \/ TryEnqWrite(t)
    \/ EnqBatchTail(t) \/ EnqBatchHead(t) \/ EnqBatchCas(t) \/ EnqBatchFill(t)

ConsumerStep(t) ==
    \/ DeqSeq(t) \/ DeqCas(t) \/ DeqRead(t) \/ DeqTail(t) \/ DeqReload(t)
    \/ TryDeqSeq(t) \/ TryDeqCas(t) \/ TryDeqRead(t)
    \/ DeqBatchHead(t) \/ DeqBatchTail(t) \/ DeqBatchCas(t) \/ DeqBatchDrain(t)

Next ==
    \E t \in Threads :
        \/ EnqCall(t) \/ TryEnqCall(t) \/ EnqBatchCall(t) \/ ProducerStep(t)
        \/ DeqCall(t) \/ TryDeqCall(t) \/ DeqBatchCall(t) \/ ConsumerStep(t)
        \/ SizeCall(t) \/ SizeHead(t)

Init == Start(FALSE, MaxCalls)

\* any number of threads, each calling any operation
Spec == Init /\ [][Next]_vars

\* one producer thread and one consumer thread
Producer == 1
Consumer == 2

NextSPSC ==
    \/ EnqCall(Producer) \/ TryEnqCall(Producer) \/ EnqBatchCall(Producer)
    \/ ProducerStep(Producer)
    \/ DeqCall(Consumer) \/ TryDeqCall(Consumer) \/ DeqBatchCall(Consumer)
    \/ ConsumerStep(Consumer)

SpecSPSC == Start(FALSE, MaxCallsSPSC) /\ [][NextSPSC]_vars

\* threads that call enqueue, enqueue_batch and dequeue
NextEnq ==
    \E t \in Threads :
        \/ EnqCall(t) \/ EnqSeq(t) \/ EnqCas(t) \/ EnqWrite(t) \/ EnqHead(t) \/ EnqReload(t)
        \/ EnqBatchCall(t)
        \/ EnqBatchTail(t) \/ EnqBatchHead(t) \/ EnqBatchCas(t) \/ EnqBatchFill(t)
        \/ DeqCall(t) \/ DeqSeq(t) \/ DeqCas(t) \/ DeqRead(t) \/ DeqTail(t) \/ DeqReload(t)

SpecEnq == Start(FALSE, MaxCallsEnq) /\ [][NextEnq]_vars

\* --------------------------------------------------------- single-threaded use
\* The reference: a bounded FIFO of capacity_ packets.  Each call of the one
\* thread is answered by the reference when it starts; expect is the answer.
Answer(o, ok, val, pkts) == [NoRes EXCEPT !.op = o, !.ok = ok, !.val = val, !.pkts = pkts]

RefEnqueue(o, p) ==
    IF Len(fifo) < capacity_
    THEN fifo' = Append(fifo, p) /\ expect' = Answer(o, TRUE, 0, <<>>)
    ELSE fifo' = fifo /\ expect' = Answer(o, FALSE, 0, <<>>)

RefDequeue(o) ==
    IF Len(fifo) > 0
    THEN fifo' = Tail(fifo) /\ expect' = Answer(o, TRUE, 0, <<Head(fifo)>>)
    ELSE fifo' = fifo /\ expect' = Answer(o, FALSE, 0, <<>>)

\* the reference after single enqueues of pkts[1], pkts[2], ... up to the first
\* one that is refused
RECURSIVE EnqueueEach(_, _)
EnqueueEach(q, pkts) ==
    IF pkts = <<>> \/ Len(q) >= capacity_ THEN q
    ELSE EnqueueEach(Append(q, Head(pkts)), Tail(pkts))

RefEnqueueBatch(pkts) ==
    LET q == EnqueueEach(fifo, pkts)
    IN  fifo' = q /\ expect' = Answer("enqueue_batch", TRUE, Len(q) - Len(fifo), <<>>)

RefDequeueBatch(m) ==
    LET k == Min(m, Len(fifo))
    IN  /\ fifo' = SubSeq(fifo, k + 1, Len(fifo))
        /\ expect' = Answer("dequeue_batch", TRUE, k,
                             SubSeq(fifo, 1, k) \o [j \in 1..(m - k) |-> DefaultPacket])

RefSize == fifo' = fifo /\ expect' = Answer("size", TRUE, Len(fifo), <<>>)

SeqThread == 1

SeqEnqCall == EnqCallCore(SeqThread) /\ RefEnqueue("enqueue", loc'[SeqThread].pkts[1])
SeqTryEnqCall == TryEnqCallCore(SeqThread) /\ RefEnqueue("try_enqueue", loc'[SeqThread].pkts[1])
SeqDeqCall == DeqCallCore(SeqThread) /\ RefDequeue("dequeue")
SeqTryDeqCall == TryDeqCallCore(SeqThread) /\ RefDequeue("try_dequeue")
SeqEnqBatchCall == EnqBatchCallCore(SeqThread) /\ RefEnqueueBatch(loc'[SeqThread].pkts)
SeqDeqBatchCall == DeqBatchCallCore(SeqThread) /\ RefDequeueBatch(Len(loc'[SeqThread].pkts))
SeqSizeCall == SizeCallCore(SeqThread) /\ RefSize

\* alone, a thread never finds a slot ahead of its cursor nor a slot that is
\* behind while the queue is neither full nor empty: it never reloads
NextSeq ==
    \/ SeqEnqCall \/ SeqTryEnqCall \/ SeqDeqCall \/ SeqTryDeqCall
    \/ SeqEnqBatchCall \/ SeqDeqBatchCall \/ SeqSizeCall
    \/ EnqSeq(SeqThread) \/ EnqCas(SeqThread) \/ EnqWrite(SeqThread) \/ EnqHead(SeqThread)
    \/ TryEnqSeq(SeqThread) \/ TryEnqCas(SeqThread) \/ TryEnqWrite(SeqThread)
    \/ EnqBatchTail(SeqThread) \/ EnqBatchHead(SeqThread) \/ EnqBatchCas(SeqThread)
    \/ EnqBatchFill(SeqThread)
    \/ DeqSeq(SeqThread) \/ DeqCas(SeqThread) \/ DeqRead(SeqThread) \/ DeqTail(SeqThread)
    \/ TryDeqSeq(SeqThread) \/ TryDeqCas(SeqThread) \/ TryDeqRead(SeqThread)
    \/ DeqBatchHead(SeqThread) \/ DeqBatchTail(SeqThread) \/ DeqBatchCas(SeqThread)
    \/ DeqBatchDrain(SeqThread)
    \/ SizeHead(SeqThread)

SpecSeq == Start(FALSE, MaxCallsSeq) /\ [][NextSeq]_vars

\* ------------------------------------------------------------ construction
\* constexpr size_t CACHE_LINE_SIZE
CACHE_LINE_SIZE == 64

\* sizeof(Slot): Slot is aligned to, and no larger than, one cache line
SizeofSlot == CACHE_LINE_SIZE

\* PTRDIFF_MAX, the largest size of an object
PTRDIFF_MAX == SIZE_MAX \div 2

\* std::make_unique<Slot[]>(n) throws (bad_array_new_length, a bad_alloc) when
\* n * sizeof(Slot) exceeds PTRDIFF_MAX; the memory of an array within that
\* limit is taken to be there
AllocFails(n) == n * SizeofSlot > PTRDIFF_MAX

\* the capacities a caller may ask for
Requests == 0..SIZE_MAX

NoBuffer == [i \in {} |-> 0]

\* the constructor's arguments, and what it threw
CtorArgs(l, e) == [capacity |-> l.n, enable_stats |-> l.enable, threw |-> e]

\* before construction: no buffer, no call made
StartCtor ==
    /\ head_seq_ = 0
    /\ tail_seq_ = 0
    /\ seq = NoBuffer
    /\ packet = NoBuffer
    /\ enable_stats_ = FALSE
    /\ stats_ = ZeroStats
    /\ pc = [t \in Threads |-> "idle"]
    /\ loc = [t \in Threads |-> IdleLoc]
    /\ ret = NoRes
    /\ budget = 1
    /\ made = [t \in Threads |-> NoneMade]
    /\ enq_log = <<>>
    /\ deq_log = <<>>
    /\ accepted = EmptyBag
    /\ seen = [t \in Threads |-> NotSeen]
    /\ fifo = <<>>
    /\ expect = NoRes

\* MPMC_PacketQueue(capacity, enable_stats): the first member initializers,
\* capacity_(round_up_to_power_of_two(capacity)) in cnt and mask_(capacity_ - 1)
\* in cur
CtorCall(t) ==
    /\ Begin(t)
    /\ seq = NoBuffer
    /\ UNCHANGED <<queue, enable_stats_, stats_, made, history, seen, reference>>
    /\ \E n \in Requests, e \in BOOLEAN :
          Goto(t, "ctor_alloc",
               [op |-> "construct", n |-> n, enable |-> e, i |-> 0, pkts |-> <<>>,
                cnt |-> round_up_to_power_of_two(n),
                cur |-> round_up_to_power_of_two(n) - 1])

\* buffer_(std::make_unique<Slot[]>(capacity_)), every Slot with packet() and
\* seq(0); then head_seq_(0), tail_seq_(0), stats_, enable_stats_(enable_stats)
CtorAlloc(t) ==
    /\ pc[t] = "ctor_alloc"
    /\ UNCHANGED <<budget, made, history, seen, reference>>
    /\ IF AllocFails(loc[t].cnt)
       THEN /\ UNCHANGED <<queue, enable_stats_, stats_>>
            /\ Return(t, "construct", FALSE, 0, <<>>, CtorArgs(loc[t], "bad_alloc"))
       ELSE /\ seq' = [i \in 0..(loc[t].cnt - 1) |-> 0]
            /\ packet' = [i \in 0..(loc[t].cnt - 1) |-> DefaultPacket]
            /\ head_seq_' = 0
            /\ tail_seq_' = 0
            /\ stats_' = ZeroStats
            /\ enable_stats_' = loc[t].enable
            /\ Goto(t, "ctor_check", loc[t])

\* variant: only the rounded capacity is tested
CtorInvalid_SizeOnly(n, c) == c > SIZE_MAX \div 2

\* if (capacity == 0) throw ...; if (capacity_ > (SIZE_MAX >> 1)) throw ...
CtorInvalid(n, c) == n = 0 \/ c > SIZE_MAX \div 2

\* variant: the slots keep the seq(0) of Slot()
InitialSeq_Zero(i) == 0

\* buffer_[i].seq.store(i)
InitialSeq(i) == i

\* the constructor body: capacity == 0 or capacity_ > (SIZE_MAX >> 1) throws
\* invalid_argument, and the members built so far are destroyed
CtorCheck(t) ==
    /\ pc[t] = "ctor_check"
    /\ UNCHANGED <<head_seq_, tail_seq_, enable_stats_, stats_, budget, made, history,
                   seen, reference>>
    /\ IF CtorInvalid(loc[t].n, loc[t].cnt)
       THEN /\ seq' = NoBuffer
            /\ packet' = NoBuffer
            /\ Return(t, "construct", FALSE, 0, <<>>, CtorArgs(loc[t], "invalid_argument"))
       ELSE /\ UNCHANGED <<seq, packet>>
            /\ Goto(t, "ctor_init", loc[t])

\* for (i = 0; i < capacity_; ++i) buffer_[i].seq.store(i); the queue exists,
\* and capacity() returns capacity_
CtorInit(t) ==
    /\ pc[t] = "ctor_init"
    /\ seq' = [i \in 0..(loc[t].cnt - 1) |-> InitialSeq(i)]
    /\ UNCHANGED <<head_seq_, tail_seq_, packet, enable_stats_, stats_, budget, made,
                   history, seen, reference>>
    /\ Return(t, "construct", TRUE, loc[t].cnt, <<>>, CtorArgs(loc[t], "none"))

NextCtor ==
    \/ CtorCall(SeqThread) \/ CtorAlloc(SeqThread) \/ CtorCheck(SeqThread)
    \/ CtorInit(SeqThread)

\* one thread constructs one queue, with any arguments
SpecCtor == StartCtor /\ [][NextCtor]_vars

\* -------------------------------------------------------------- statistics
\* variant: one counter is left out of the reset
StatsOrder_NoDequeueSuccesses ==
    <<"enqueue_attempts", "enqueue_successes", "dequeue_attempts",
      "batch_enqueues", "batch_dequeues", "contention_events">>

\* QueueStats::reset stores 0 into the counters in this order
StatsOrder ==
    <<"enqueue_attempts", "enqueue_successes", "dequeue_attempts", "dequeue_successes",
      "batch_enqueues", "batch_dequeues", "contention_events">>

\* reset_stats(): stats_.reset(), the first store
ResetCall(t) ==
    /\ Begin(t)
    /\ stats_' = [stats_ EXCEPT ![StatsOrder[1]] = 0]
    /\ UNCHANGED <<queue, enable_stats_, made, history, reference>>
    /\ Goto(t, "rs_store", [IdleLoc EXCEPT !.op = "reset_stats", !.i = 1])
    /\ Observe(t)

\* the next store of reset; after the last one the call returns
ResetStore(t) ==
    /\ pc[t] = "rs_store"
    /\ stats_' = [stats_ EXCEPT ![StatsOrder[loc[t].i + 1]] = 0]
    /\ UNCHANGED <<queue, enable_stats_, budget, made, history, reference>>
    /\ IF loc[t].i + 1 = Len(StatsOrder)
       THEN Return(t, "reset_stats", TRUE, 0, <<>>, <<>>)
       ELSE Goto(t, "rs_store", [loc[t] EXCEPT !.i = @ + 1])
    /\ Observe(t)

\* get_enqueue_success_rate() / get_dequeue_success_rate() on counters a, s:
\* the rate as the pair <<numerator, denominator>>, 0 being <<0, 1>>
SuccessRate(a, s) == IF a = 0 THEN <<0, 1>> ELSE <<s, a>>

\* threads that call enqueue, dequeue and reset_stats on a queue with stats
NextStats ==
    \E t \in Threads :
        \/ EnqCall(t) \/ EnqSeq(t) \/ EnqCas(t) \/ EnqWrite(t) \/ EnqHead(t) \/ EnqReload(t)
        \/ EnqTail(t) \/ EnqCount(t) \/ EnqContend(t)
        \/ DeqCall(t) \/ DeqSeq(t) \/ DeqCas(t) \/ DeqRead(t) \/ DeqTail(t) \/ DeqReload(t)
        \/ DeqHead(t) \/ DeqCount(t) \/ DeqContend(t)
        \/ ResetCall(t) \/ ResetStore(t)

SpecStats == Start(TRUE, MaxCallsStats) /\ [][NextStats]_vars

\* ------------------------------------------------------------------ history
\* no call is in progress
Quiescent == \A t \in Threads : pc[t] = "idle"

\* the packets in the slots of the cursors head .. tail - 1, oldest first
ResidentPackets ==
    [k \in 1..Resident |-> packet[SlotIndex(Wrap(head_seq_ + k - 1))]]

\* the ids of a sequence of packets, as a bag
BagOfIds(q) ==
    LET ids == {q[k].id : k \in DOMAIN q}
    IN  [x \in ids |-> Cardinality({k \in DOMAIN q : q[k].id = x})]

DeliveredPackets == [k \in DOMAIN deq_log |-> deq_log[k].pkt]

\* the thread that built the packet with this id, and its place in that thread's stream
ProducerOf(id) == (id \div packets_per_producer) + 1
SerialOf(id) == id % packets_per_producer

\* ------------------------------------------------------------------- claims
\* C1 Conservation: whenever no call is in progress, the bag of ids accepted by
\* successful enqueues (single, try, batch) equals the bag of ids returned by
\* dequeues plus the ids resident in the slots head .. tail - 1, and the number
\* accepted minus the number returned is tail - head.
C1_Conservation ==
    Quiescent =>
        /\ accepted = BagOfIds(DeliveredPackets \o ResidentPackets)
        /\ BagCardinality(accepted) - Len(deq_log) = tail_seq_ - head_seq_

\* both threads have enqueued and dequeued, by single and batch calls, and one
\* packet is still resident
C1_Witness ==
    /\ Quiescent
    /\ tail_seq_ - head_seq_ = 1
    /\ \A t \in Threads : \E k \in DOMAIN deq_log : deq_log[k].by = t
    /\ \A t \in Threads : \E k \in DOMAIN enq_log : enq_log[k].by = t
    /\ \E k \in DOMAIN enq_log : enq_log[k].off > 0

\* C2 No duplication: no packet accepted by an enqueue is handed out by two
\* dequeues (of any kind, by any consumers), and no cursor is consumed twice.
C2_NoDuplication ==
    \A i, j \in DOMAIN deq_log :
        i # j =>
            /\ deq_log[i].cur # deq_log[j].cur
            /\ (\E k \in DOMAIN enq_log : enq_log[k].pkt.id = deq_log[i].pkt.id)
                   => deq_log[i].pkt.id # deq_log[j].pkt.id

\* two consumers held the same head snapshot, and both have since received a packet
C2_Witness ==
    /\ \E i, j \in DOMAIN deq_log : deq_log[i].by # deq_log[j].by
    /\ ret.op \in {"dequeue", "try_dequeue"} /\ ret.ok
    /\ \E t \in Threads : pc[t] \in {"deq_seq", "td_seq"} /\ loc[t].cur # head_seq_

\* C3 No fabrication: every packet handed out by a dequeue is, field for field,
\* the packet an enqueue put at that cursor, and a consumer about to read a slot
\* finds it published by the producer of that cursor.
C3_NoFabrication ==
    /\ \A k \in DOMAIN deq_log :
          \E j \in DOMAIN enq_log :
              enq_log[j].cur = deq_log[k].cur /\ enq_log[j].pkt = deq_log[k].pkt
    /\ \A t \in Threads :
          pc[t] \in {"deq_read", "td_read"} =>
              /\ seq[SlotIndex(loc[t].cur)] = Wrap(loc[t].cur + 1)
              /\ \E j \in DOMAIN enq_log :
                    /\ enq_log[j].cur = loc[t].cur
                    /\ enq_log[j].pkt = packet[SlotIndex(loc[t].cur)]
    /\ (ret.op \in {"dequeue", "try_dequeue"} /\ ret.ok) =>
          \E j \in DOMAIN enq_log : enq_log[j].pkt = ret.pkts[1]
    /\ ret.op = "dequeue_batch" =>
          \A k \in 1..ret.val : \E j \in DOMAIN enq_log : enq_log[j].pkt = ret.pkts[k]

\* a batch dequeue has returned two packets of different producers, one of them
\* Packet(0), which equals a default packet, while a producer holds a reserved
\* slot it has not written yet
C3_Witness ==
    /\ ret.op = "dequeue_batch" /\ ret.val = 2
    /\ \E k \in 1..2 : ret.pkts[k] = DefaultPacket
    /\ ProducerOf(ret.pkts[1].id) # ProducerOf(ret.pkts[2].id)
    /\ \E t \in Threads : pc[t] \in {"enq_write", "te_write", "eb_fill"}

\* C5 Per-producer order: of two delivered packets of one producer, the one
\* claimed at the lower head cursor is the one that producer enqueued first.
C5_PerProducerOrder ==
    \A i, j \in DOMAIN deq_log :
        (/\ deq_log[i].cur < deq_log[j].cur
         /\ ProducerOf(deq_log[i].pkt.id) = ProducerOf(deq_log[j].pkt.id))
            => SerialOf(deq_log[i].pkt.id) < SerialOf(deq_log[j].pkt.id)

\* two packets of one enqueue_batch call, reserved in separate chunks, have both
\* been delivered
C5_Witness ==
    \E i, j \in DOMAIN deq_log : \E a, b \in DOMAIN enq_log :
        /\ enq_log[a].cur = deq_log[i].cur /\ enq_log[b].cur = deq_log[j].cur
        /\ enq_log[a].by = enq_log[b].by
        /\ enq_log[a].off = 0 /\ enq_log[b].off > 0
        /\ SerialOf(enq_log[b].pkt.id) = SerialOf(enq_log[a].pkt.id) + enq_log[b].off

\* C6 (as claimed) FIFO by cursor order: the packet at the lower cursor is
\* delivered before the packet at the higher cursor is delivered to anyone, and
\* no consumer receives the higher cursor's packet before the lower one's.
C6_DeliveredInCursorOrder ==
    /\ \A i, j \in DOMAIN deq_log : deq_log[i].cur < deq_log[j].cur => i < j
    /\ \A i, j \in DOMAIN deq_log :
          (deq_log[i].by = deq_log[j].by /\ deq_log[i].cur < deq_log[j].cur) => i < j

\* C6 (amended): the packet at the lower cursor is claimed first - once a packet
\* is delivered, head has passed its cursor and so every lower cursor is claimed -
\* and a consumer that receives two packets receives the lower cursor first.
C6_ClaimedInCursorOrder ==
    /\ \A k \in DOMAIN deq_log : deq_log[k].cur < head_seq_
    /\ \A i, j \in DOMAIN deq_log :
          (deq_log[i].by = deq_log[j].by /\ deq_log[i].cur < deq_log[j].cur) => i < j

\* a consumer has received the packet of a cursor while another consumer still
\* holds the claimed, undelivered packet of a lower cursor
C6_Witness ==
    \E t, u \in Threads :
        /\ pc[t] \in {"deq_read", "td_read", "db_drain"}
        /\ \E k \in DOMAIN deq_log : deq_log[k].by = u /\ deq_log[k].cur > loc[t].cur
        /\ loc[t].cur < head_seq_

\* C8 Cursor bounds: 0 <= tail - head <= capacity in every state.
C8_CursorBounds ==
    /\ head_seq_ <= tail_seq_
    /\ tail_seq_ - head_seq_ <= capacity_

\* a batch reservation has moved tail by more than one to exactly head + capacity
\* while a batch consumer has moved head by more than one
C8_Witness ==
    /\ tail_seq_ - head_seq_ = capacity_
    /\ head_seq_ > 0
    /\ \E t \in Threads : pc[t] = "eb_fill" /\ loc[t].n > 1
    /\ \E k \in DOMAIN deq_log : deq_log[k].cur + 1 = head_seq_ /\ deq_log[k].cur > 0

\* C9 size() returns a value in [0, capacity], and full() (size() >= capacity)
\* is true only if the queue held capacity packets at some instant of the call.
C9_SizeWithinBounds ==
    ret.op = "size" =>
        /\ ret.val \in 0..capacity_
        /\ FullOf(ret.val) => ret.full

\* the call that has just returned gave the reference's answer
Matches == ret.op = expect.op /\ ret.ok = expect.ok /\ ret.val = expect.val
               /\ ret.pkts = expect.pkts

\* C4 One producer, one consumer: the packets the consumer has obtained, in the
\* order it obtained them, are the packets the producer enqueued, unchanged, in
\* the producer's order and without skipping one the producer was told is
\* accepted; a batch dequeue returns them in that order in its range.
C4_SPSCOrder ==
    /\ \A j, k \in DOMAIN deq_log :
          j < k => SerialOf(deq_log[j].pkt.id) < SerialOf(deq_log[k].pkt.id)
    /\ \A k \in DOMAIN deq_log : \A id \in BagToSet(accepted) :
          SerialOf(id) < SerialOf(deq_log[k].pkt.id) =>
              \E j \in 1..(k - 1) : deq_log[j].pkt.id = id
    /\ \A k \in DOMAIN deq_log : deq_log[k].pkt = Packet(deq_log[k].pkt.id)
    /\ ret.op = "dequeue_batch" =>
          \A k \in 1..ret.val : ret.pkts[k] = deq_log[Len(deq_log) - ret.val + k].pkt

\* the consumer has obtained four packets, the last two by one batch dequeue,
\* from a producer that enqueued part of a batch in a second reservation
C4_Witness ==
    /\ Len(deq_log) = 4
    /\ ret.op = "dequeue_batch" /\ ret.val = 2
    /\ \E k \in DOMAIN enq_log : enq_log[k].off > 0

\* C7 Single-threaded use is a bounded FIFO of capacity_: every enqueue, dequeue
\* and size call returns what the reference FIFO returns, empty() and full()
\* hold iff the reference holds 0 and capacity_ packets, between calls the
\* resident packets are the reference's, oldest first, and no call has to retry.
C7_SequentialFIFO ==
    /\ ret.op \in {"enqueue", "dequeue", "size"} => Matches
    /\ ret.op = "size" =>
          /\ EmptyOf(ret.val) <=> Len(fifo) = 0
          /\ FullOf(ret.val) <=> Len(fifo) = capacity_
    /\ Quiescent => ResidentPackets = fifo
    /\ pc[SeqThread] \notin {"enq_reload", "deq_reload"}

\* the fill-drain scenario: the queue was filled, an enqueue was refused, one
\* packet was dequeued, a further enqueue succeeded, and the drain has just
\* returned the last packet: three packets out, in the order they went in
C7_Witness ==
    /\ budget = 0 /\ Quiescent
    /\ made[SeqThread] = [enqueued |-> capacity_ + 1, offered |-> capacity_ + 2]
    /\ Len(enq_log) = capacity_ + 1
    /\ \A k \in DOMAIN enq_log : enq_log[k].off = 0
    /\ Len(deq_log) = capacity_ + 1
    /\ ret.op = "dequeue" /\ ret.ok
    /\ ret.pkts[1] = NewPacket(SeqThread, capacity_)

\* C10 enqueue returns false only if the queue held capacity packets at some
\* instant of the call.
C10_FalseOnlyIfFull == (ret.op = "enqueue" /\ ~ret.ok) => ret.full

\* C11 dequeue returns absent only when head = tail at the instant it loads tail
\* (the returning step leaves the cursors alone, so they are still equal in the
\* state it returns in); and while the queue is empty a dequeue that has loaded
\* the current head finds the slot behind it, so its next load is tail and it
\* returns absent instead of retrying.
C11_AbsentIffEmpty ==
    /\ (ret.op = "dequeue" /\ ~ret.ok) => head_seq_ = tail_seq_
    /\ \A t \in Threads :
          (pc[t] = "deq_seq" /\ loc[t].cur = head_seq_ /\ head_seq_ = tail_seq_)
              => DequeueDiff(seq[SlotIndex(loc[t].cur)], loc[t].cur) < 0

\* a dequeue has returned absent on a queue that had been used and emptied, while
\* the consumer of the last packet still holds its slot
C11_Witness ==
    /\ ret.op = "dequeue" /\ ~ret.ok
    /\ head_seq_ = tail_seq_ /\ head_seq_ > 0
    /\ \E u \in Threads : pc[u] \in {"deq_read", "td_read", "db_drain"}

\* the cursors at which packet p has been put into the ring: published and not
\* yet released slots holding it, and deliveries of it
PlacedAt(p) ==
    {c \in 0..(tail_seq_ - 1) :
        seq[SlotIndex(c)] = Wrap(c + 1) /\ packet[SlotIndex(c)] = p}
    \cup {deq_log[m].cur : m \in {m \in DOMAIN deq_log : deq_log[m].pkt = p}}

\* C12 enqueue_batch returns k in 0 .. input size; on return each of the first k
\* input packets has been placed at exactly one cursor, the cursors increase with
\* the input index, and no later input packet has been placed; nor is, during the
\* call, any input packet beyond those the call has written so far.
C12_BatchEnqueuesPrefix ==
    /\ ret.op = "enqueue_batch" =>
          /\ ret.val \in 0..Len(ret.src)
          /\ \A j \in DOMAIN ret.src :
                Cardinality(PlacedAt(ret.src[j])) = (IF j <= ret.val THEN 1 ELSE 0)
          /\ \A i, j \in 1..ret.val :
                i < j => \A a \in PlacedAt(ret.src[i]) : \A b \in PlacedAt(ret.src[j]) : a < b
    /\ \A t \in Threads :
          pc[t] \in {"eb_tail", "eb_head", "eb_cas", "eb_fill"} =>
              \A j \in DOMAIN loc[t].pkts :
                  j > loc[t].cnt + (IF pc[t] = "eb_fill" THEN loc[t].i ELSE 0)
                      => PlacedAt(loc[t].pkts[j]) = {}

\* a batch of two has been enqueued whole in two reservations, with another
\* producer's packet at the cursor between them
C12_Witness ==
    /\ ret.op = "enqueue_batch" /\ ret.val = 2
    /\ \E a, b \in DOMAIN enq_log :
          /\ enq_log[a].pkt = ret.src[1] /\ enq_log[b].pkt = ret.src[2]
          /\ enq_log[b].cur > enq_log[a].cur + 1

\* C13 enqueue_batch returns fewer packets than it was given only if the queue
\* held capacity packets at some instant of the call.
C13_ShortOnlyIfFull ==
    (ret.op = "enqueue_batch" /\ ret.val < Len(ret.src)) => ret.full

\* C14 Single-threaded, enqueue_batch of n packets with s resident returns
\* min(n, capacity - s) and leaves the queue as single enqueues up to the first
\* refusal would; dequeue_batch into a range of m returns min(m, s) with the
\* min(m, s) oldest packets, oldest first, in the first places of the range.
C14_BatchAsRepeatedSingles ==
    /\ ret.op = "enqueue_batch" =>
          /\ Matches
          /\ ret.val = Min(Len(ret.src), capacity_ - (Len(fifo) - ret.val))
    /\ ret.op = "dequeue_batch" =>
          /\ Matches
          /\ ret.val = Min(Len(ret.pkts), Len(fifo) + ret.val)
    /\ Quiescent => ResidentPackets = fifo

\* after an enqueue and a batch of two of which only the first fitted, and a
\* dequeue, a batch dequeue into a range of two has returned that one packet
C14_Witness ==
    /\ ret.op = "dequeue_batch" /\ ret.val = 1 /\ Len(ret.pkts) = 2
    /\ made[SeqThread] = [enqueued |-> 2, offered |-> 3] /\ Len(enq_log) = 2
    /\ ret.pkts[1] = NewPacket(SeqThread, 1)
    /\ ret.pkts[2] = DefaultPacket

\* the powers of two that a size_t holds
PowersOfTwo == {Pow2(k) : k \in 0..(WordBits - 1)}

\* max(2, smallest power of two >= n)
RoundedCapacity(n) ==
    LET p == CHOOSE p \in PowersOfTwo :
                 p >= n /\ \A q \in PowersOfTwo : q >= n => p <= q
    IN  IF p < 2 THEN 2 ELSE p

\* C15 Every positive requested capacity n whose construction succeeds gives
\* capacity() = max(2, smallest power of two >= n), as in 1 -> 2, 3 -> 4, 5 -> 8,
\* 16 -> 16, 17 -> 32; capacity() is a power of two, the buffer has that many
\* slots, and cursor & (capacity - 1) = cursor mod capacity for every cursor.
C15_CapacityRounding ==
    (ret.op = "construct" /\ ret.ok) =>
        /\ ret.src.capacity > 0
        /\ ret.val = RoundedCapacity(ret.src.capacity)
        /\ ret.src.capacity = 1 => ret.val = 2
        /\ ret.src.capacity = 3 => ret.val = 4
        /\ ret.src.capacity = 5 => ret.val = 8
        /\ ret.src.capacity = 16 => ret.val = 16
        /\ ret.src.capacity = 17 => ret.val = 32
        /\ ret.val \in PowersOfTwo
        /\ DOMAIN seq = 0..(ret.val - 1)
        /\ \A c \in 0..SIZE_MAX : BitAnd(c, ret.val - 1) = c % ret.val

\* a queue asked for with capacity 17 has been constructed, with 32 slots
C15_Witness ==
    /\ ret.op = "construct" /\ ret.ok
    /\ ret.src.capacity = 17 /\ ret.val = 32
    /\ Cardinality(DOMAIN seq) = 32

\* C16 Construction with requested capacity 0 throws invalid_argument, and no
\* queue exists afterwards; no construction that succeeds was asked for 0.
C16_ZeroCapacityRejected ==
    (ret.op = "construct" /\ ret.src.capacity = 0) =>
        /\ ~ret.ok
        /\ ret.src.threw = "invalid_argument"
        /\ seq = NoBuffer /\ packet = NoBuffer

\* the constructor has thrown for a requested capacity of 0, stats enabled
C16_Witness ==
    /\ ret.op = "construct" /\ ~ret.ok
    /\ ret.src.capacity = 0 /\ ret.src.enable_stats

\* C17 Construction with a requested capacity that rounds beyond half of the
\* address space throws invalid_argument and nothing else.
C17_TooLargeIsInvalidArgument ==
    (ret.op = "construct"
        /\ round_up_to_power_of_two(ret.src.capacity) > SIZE_MAX \div 2) =>
            ~ret.ok /\ ret.src.threw = "invalid_argument"

\* C18 Right after a successful construction head = tail = 0, every slot i has
\* seq = i and a default packet, size() is 0, empty() is true and full() is
\* false; a request of 5 gives 8 slots; and a request of ReqCapacity gives the
\* state every other specification starts in.
C18_FreshQueue ==
    (ret.op = "construct" /\ ret.ok) =>
        /\ head_seq_ = 0 /\ tail_seq_ = 0
        /\ DOMAIN seq = 0..(ret.val - 1)
        /\ \A i \in DOMAIN seq : seq[i] = i
        /\ \A i \in DOMAIN packet : packet[i] = DefaultPacket
        /\ SizeOf(tail_seq_, head_seq_) = 0
        /\ EmptyOf(SizeOf(tail_seq_, head_seq_))
        /\ ~(SizeOf(tail_seq_, head_seq_) >= ret.val)
        /\ stats_ = ZeroStats
        /\ ret.src.capacity = 5 => ret.val = 8
        /\ ret.src.capacity = ReqCapacity =>
              ret.val = capacity_ /\ Construct(ret.src.enable_stats)

\* a queue asked for with capacity 5 has been constructed: 8 slots, seq[7] = 7
C18_Witness ==
    /\ ret.op = "construct" /\ ret.ok
    /\ ret.src.capacity = 5
    /\ 7 \in DOMAIN seq /\ seq[7] = 7 /\ 8 \notin DOMAIN seq

\* C19 With stats enabled, in every state enqueue_successes <= enqueue_attempts
\* and dequeue_successes <= dequeue_attempts, so each success rate lies in [0, 1].
C19_SuccessesWithinAttempts ==
    enable_stats_ =>
        /\ stats_.enqueue_successes <= stats_.enqueue_attempts
        /\ stats_.dequeue_successes <= stats_.dequeue_attempts
        /\ \A c \in {"enqueue", "dequeue"} :
              LET r == SuccessRate(stats_[c \o "_attempts"], stats_[c \o "_successes"])
              IN  0 <= r[1] /\ r[1] <= r[2]

\* C20 With stats disabled all seven counters read zero in every state.
C20_DisabledStatsStayZero ==
    ~enable_stats_ => \A c \in DOMAIN stats_ : stats_[c] = 0

\* with stats disabled, an enqueue that found its slot behind and the queue not
\* full is about to retry, after batch and single calls of both kinds
C20_Witness ==
    /\ ~enable_stats_
    /\ \E t \in Threads :
          /\ pc[t] = "enq_reload"
          /\ EnqueueDiff(seq[SlotIndex(loc[t].cur)], loc[t].cur) < 0
    /\ Len(deq_log) > 0
    /\ \E k \in DOMAIN enq_log : enq_log[k].off > 0

\* one thread, stats enabled, calling every operation and reset_stats
NextSeqStats ==
    \/ NextSeq \/ ResetCall(SeqThread) \/ ResetStore(SeqThread)
    \/ EnqTail(SeqThread) \/ EnqCount(SeqThread) \/ DeqHead(SeqThread) \/ DeqCount(SeqThread)

SpecSeqStats == Start(TRUE, MaxCallsSeqStats) /\ [][NextSeqStats]_vars

\* C21 reset_stats returns with all seven counters zero and has changed nothing
\* else: the resident packets are those of the reference FIFO, which knows no
\* reset, head and tail are the numbers of packets taken out and put in, every
\* slot's seq is what its cursors left there, and every later call answers as
\* the reference does.
C21_ResetOnlyZeroesCounters ==
    /\ ret.op = "reset_stats" => \A c \in DOMAIN stats_ : stats_[c] = 0
    /\ ret.op \notin {"none", "reset_stats"} => Matches
    /\ pc[SeqThread] \in {"idle", "rs_store"} =>
          /\ ResidentPackets = fifo
          /\ head_seq_ = Len(deq_log) /\ tail_seq_ = Len(enq_log)
          /\ \A i \in Slots :
                seq[i] \in {Wrap(c + 1) : c \in {c \in head_seq_..(tail_seq_ - 1) : SlotIndex(c) = i}}
                    \cup {c \in tail_seq_..(tail_seq_ + capacity_ - 1) : SlotIndex(c) = i}

\* reset_stats has returned on a queue that has taken packets in and given some
\* out and still holds one, after which nothing is counted
C21_Witness ==
    /\ ret.op = "reset_stats"
    /\ Len(deq_log) > 0 /\ Resident = 1
    /\ stats_ = ZeroStats

\* ----------------------------------------------------------------- progress
\* the threads that keep running; the remaining thread may stop for ever at any
\* point of a call
Running == Threads \ {SeqThread}

\* a step of thread t inside enqueue or dequeue
SingleStep(t) ==
    \/ EnqSeq(t) \/ EnqCas(t) \/ EnqWrite(t) \/ EnqHead(t) \/ EnqReload(t)
    \/ DeqSeq(t) \/ DeqCas(t) \/ DeqRead(t) \/ DeqTail(t) \/ DeqReload(t)

\* threads calling enqueue and dequeue on a queue built with enable_stats = false
NextLockFree == \E t \in Threads : EnqCall(t) \/ DeqCall(t) \/ SingleStep(t)

\* a running thread goes on taking the steps of its call, and its weak
\* compare-exchange does not fail for ever while the cursor holds the expected
\* value again and again
FairSingle(t) ==
    /\ WF_vars(SingleStep(t))
    /\ SF_vars(EnqCas(t) /\ tail_seq_' # tail_seq_)
    /\ SF_vars(DeqCas(t) /\ head_seq_' # head_seq_)

\* threads calling enqueue and dequeue, one of which may be suspended anywhere
SpecLockFree ==
    /\ Start(FALSE, MaxCallsLockFree)
    /\ [][NextLockFree]_vars
    /\ \A t \in Running : FairSingle(t)

\* C22 Single-element operations are lock-free: whatever point of an enqueue or
\* dequeue another thread is suspended at, every enqueue or dequeue call of a
\* running thread returns.
C22_RunningCallsReturn ==
    \A t \in Running : (pc[t] # "idle") ~> (pc[t] = "idle")

\* a step of thread t inside enqueue_batch or dequeue_batch; the per-slot wait
\* loops (lines 411-413, 462-464) are the guards of EnqBatchFill and DeqBatchDrain
BatchStep(t) ==
    \/ EnqBatchTail(t) \/ EnqBatchHead(t) \/ EnqBatchCas(t) \/ EnqBatchFill(t)
    \/ DeqBatchHead(t) \/ DeqBatchTail(t) \/ DeqBatchCas(t) \/ DeqBatchDrain(t)

\* threads calling the single and the batch operations on a queue built with
\* enable_stats = false
NextIsolated ==
    \E t \in Threads :
       \/ EnqCall(t) \/ DeqCall(t) \/ SingleStep(t)
       \/ EnqBatchCall(t) \/ DeqBatchCall(t) \/ BatchStep(t)

\* a running thread goes on taking the steps of its batch call, and its weak
\* compare-exchange does not fail for ever while the cursor holds the expected
\* value again and again
FairBatch(t) ==
    /\ WF_vars(BatchStep(t))
    /\ SF_vars(EnqBatchCas(t) /\ tail_seq_' # tail_seq_)
    /\ SF_vars(DeqBatchCas(t) /\ head_seq_' # head_seq_)

\* threads calling single and batch operations; the threads outside Running may
\* pause for ever at any point of a call
SpecIsolated ==
    /\ Start(FALSE, MaxCallsIsolated)
    /\ [][NextIsolated]_vars
    /\ \A t \in Running : FairBatch(t)

\* C23 Batch operations are obstruction-free: a thread that runs enqueue_batch or
\* dequeue_batch while every other thread is paused, wherever the others were
\* paused, returns from the call after finitely many steps of its own.
C23_IsolatedBatchReturns ==
    \A t \in Running :
       (pc[t] \in {"eb_tail", "eb_head", "eb_cas", "eb_fill",
                   "db_head", "db_tail", "db_cas", "db_drain"}) ~> (pc[t] = "idle")

\* ------------------------------------------------------------ slot ownership
\* the cursors thread t has reserved by a cursor CAS and not yet released by its
\* store to the slot's seq, each with the role it was reserved in
Holds(t) ==
    CASE pc[t] \in {"enq_write", "te_write"} -> {<<loc[t].cur, "producer">>}
      [] pc[t] \in {"deq_read", "td_read"} -> {<<loc[t].cur, "consumer">>}
      [] pc[t] = "eb_fill" ->
            {<<Wrap(loc[t].cur + j), "producer">> : j \in loc[t].i..(loc[t].n - 1)}
      [] pc[t] = "db_drain" ->
            {<<Wrap(loc[t].cur + j), "consumer">> : j \in loc[t].i..(loc[t].n - 1)}
      [] OTHER -> {}

\* the reservations of thread t whose slot carries the seq the thread accesses
\* the packet at: seq = c for a producer (lines 246-249, 411), seq = c + 1 for
\* a consumer (lines 339-342, 462)
Granted(t) ==
    {h \in Holds(t) :
        seq[SlotIndex(h[1])] = IF h[2] = "producer" THEN h[1] ELSE Wrap(h[1] + 1)}

\* C24 (as stated) In every reachable state at most one thread is between its
\* reservation of a cursor of a given slot and its store to that slot's seq.
C24_OneReservationPerSlot ==
    \A i \in Slots :
       Cardinality({t \in Threads : \E h \in Holds(t) : SlotIndex(h[1]) = i}) <= 1

\* C24 (amended) In every reachable state at most one thread holds a reservation
\* of a given slot whose seq grants it the access (seq = c for the producer of
\* cursor c, seq = c + 1 for its consumer), and a thread of a single or try
\* operation that has reserved a cursor is granted it: a slot's packet is never
\* written while another thread writes or reads it.
C24_OneAccessorPerSlot ==
    /\ \A i \in Slots :
          Cardinality({t \in Threads : \E h \in Granted(t) : SlotIndex(h[1]) = i}) <= 1
    /\ \A t \in Threads :
          pc[t] \in {"enq_write", "te_write", "deq_read", "td_read"} => Granted(t) = Holds(t)

\* a batch producer and a consumer both hold a reservation of the same slot, and
\* the slot's seq grants it to the consumer only
C24_Witness ==
    \E t, u \in Threads :
       /\ pc[t] = "eb_fill" /\ pc[u] \in {"deq_read", "td_read", "db_drain"}
       /\ \E h \in Holds(t), g \in Granted(u) :
             SlotIndex(h[1]) = SlotIndex(g[1]) /\ h \notin Granted(t)

\* ------------------------------------------------------------ Packet methods
\* PacketPriority: Low = 0, Medium = 1, High = 2, Control = 3
Priorities == 0..3

\* the packets Packet(d, l, p, i) of the bounded field values
Packets ==
    [data : 0..MaxPtr, length : 0..MaxLength, priority : Priorities, id : 0..MaxId]

\* variant: the priority decides only between packets of equal id
Packet_lt_IdFirst(a, b) ==
    IF a.id # b.id THEN a.id < b.id ELSE a.priority < b.priority

\* Packet::operator<
Packet_lt(a, b) ==
    IF a.priority # b.priority THEN a.priority < b.priority ELSE a.id < b.id

\* variant: the priority is not compared
Packet_eq_IdOnly(a, b) == a.id = b.id

\* Packet::operator==
Packet_eq(a, b) == a.id = b.id /\ a.priority = b.priority

\* Packet::operator!=
Packet_ne(a, b) == ~Packet_eq(a, b)

\* variant: the length is not tested
Packet_is_valid_PointerOnly(p) == p.data # 0

\* Packet::is_valid
Packet_is_valid(p) == p.data # 0 /\ p.length > 0

\* Packet::reset
Packet_reset(p) == [p EXCEPT !.data = 0, !.length = 0, !.priority = 0, !.id = 0]

\* Packet(Packet&& other): the new packet
Packet_move(other) ==
    [data |-> other.data, length |-> other.length, priority |-> other.priority,
     id |-> other.id]

\* a thread builds two packets a = pkts[1] and b = pkts[2] with the full
\* constructor Packet(d, l, p, i), on which it then calls the packet methods
PktBuild(t) ==
    /\ pc[t] = "idle" /\ loc[t].op = "none"
    /\ UNCHANGED <<queue, enable_stats_, stats_, pc, ret, budget, made, history, seen,
                   reference>>
    /\ \E a, b \in Packets :
          loc' = [loc EXCEPT ![t] = [IdleLoc EXCEPT !.op = "packet", !.pkts = <<a, b>>]]

\* one call on the thread's packets: they become pkts, the call yields ok
PacketCall(t, o, ok, x, y, pkts) ==
    /\ Begin(t)
    /\ loc[t].op = "packet"
    /\ UNCHANGED <<queue, enable_stats_, stats_, pc, made, history, seen, reference>>
    /\ loc' = [loc EXCEPT ![t].pkts = pkts]
    /\ ret' = [NoRes EXCEPT !.op = o, !.by = t, !.ok = ok,
                            !.src = <<loc[t].pkts[x], loc[t].pkts[y]>>,
                            !.pkts = <<pkts[x], pkts[y]>>, !.val = IF x = y THEN 1 ELSE 0]

\* pkts[x] < pkts[y]
PktLess(t) ==
    \E x, y \in 1..2 :
       PacketCall(t, "lt", Packet_lt(loc[t].pkts[x], loc[t].pkts[y]), x, y, loc[t].pkts)

\* pkts[x] == pkts[y]
PktEq(t) ==
    \E x, y \in 1..2 :
       PacketCall(t, "eq", Packet_eq(loc[t].pkts[x], loc[t].pkts[y]), x, y, loc[t].pkts)

\* pkts[x] != pkts[y]
PktNe(t) ==
    \E x, y \in 1..2 :
       PacketCall(t, "ne", Packet_ne(loc[t].pkts[x], loc[t].pkts[y]), x, y, loc[t].pkts)

\* pkts[x].is_valid()
PktIsValid(t) ==
    \E x \in 1..2 :
       PacketCall(t, "is_valid", Packet_is_valid(loc[t].pkts[x]), x, x, loc[t].pkts)

\* pkts[x].reset()
PktReset(t) ==
    \E x \in 1..2 :
       PacketCall(t, "reset", TRUE, x, x,
                  [loc[t].pkts EXCEPT ![x] = Packet_reset(loc[t].pkts[x])])

\* Packet c(std::move(pkts[x])); pkts[y] = c, with y # x
PktMoveCtor(t) ==
    \E x, y \in 1..2 :
       /\ x # y
       /\ PacketCall(t, "move_ctor", TRUE, x, y,
                     [loc[t].pkts EXCEPT ![y] = Packet_move(loc[t].pkts[x]),
                                         ![x] = MovedFrom(loc[t].pkts[x])])

\* pkts[y] = std::move(pkts[x]); nothing happens when both are the same object
PktMoveAssign(t) ==
    \E x, y \in 1..2 :
       PacketCall(t, "move_assign", TRUE, x, y,
                  IF x # y
                  THEN [loc[t].pkts EXCEPT ![y] = Packet_move(loc[t].pkts[x]),
                                           ![x] = MovedFrom(loc[t].pkts[x])]
                  ELSE loc[t].pkts)

NextPacket ==
    \/ PktBuild(SeqThread)
    \/ PktLess(SeqThread) \/ PktEq(SeqThread) \/ PktNe(SeqThread)
    \/ PktIsValid(SeqThread) \/ PktReset(SeqThread)
    \/ PktMoveCtor(SeqThread) \/ PktMoveAssign(SeqThread)

SpecPacket == Start(FALSE, MaxCallsPacket) /\ [][NextPacket]_vars

\* C25 After a packet has been move-constructed or move-assigned from p (p not
\* the target), all four fields of p are those of the default packet: pointer
\* null, length 0, priority Low and id 0.
C25_MovedFromIsDefault ==
    ret.op \in {"move_ctor", "move_assign"} /\ ret.val = 0 => ret.pkts[1] = DefaultPacket

\* C26 is_valid() is true exactly when the pointer is non-null and the length is
\* positive; reset() leaves the default packet, for which is_valid() is false.
C26_ValidityAndReset ==
    /\ ret.op = "is_valid" => (ret.ok <=> ret.src[1].data # 0 /\ ret.src[1].length > 0)
    /\ ret.op = "reset" => ret.pkts[1] = DefaultPacket /\ ~Packet_is_valid(ret.pkts[1])
    /\ ret.op = "is_valid" /\ ret.src[1] = DefaultPacket => ~ret.ok

\* a valid packet of priority other than Low has been reset
C26_Witness ==
    /\ ret.op = "reset"
    /\ ret.src[1].data # 0 /\ ret.src[1].length > 0
    /\ ret.src[1].priority > 0 /\ ret.src[1].id > 0
    /\ ret.pkts[1] = DefaultPacket

\* C27 a < b is the lexicographic order on (priority ordinal, id): the lower
\* priority is less whatever the ids, and among equal priorities the lower id is
\* less; pointer and length play no part.
C27_LexicographicOrder ==
    ret.op = "lt" =>
       (ret.ok <=> \/ ret.src[1].priority < ret.src[2].priority
                   \/ /\ ret.src[1].priority = ret.src[2].priority
                      /\ ret.src[1].id < ret.src[2].id)

C27_Witness ==
    /\ ret.op = "lt" /\ ret.ok
    /\ ret.src[1].priority < ret.src[2].priority /\ ret.src[1].id > ret.src[2].id
    /\ ret.src[1].data > ret.src[2].data /\ ret.src[1].length > ret.src[2].length

\* C28 a == b holds exactly when id and priority agree, a != b is its negation,
\* and of a < b, a == b, b < a exactly one holds for any two packets.
C28_EqualityAndTrichotomy ==
    /\ ret.op = "eq" =>
          (ret.ok <=> ret.src[1].id = ret.src[2].id /\ ret.src[1].priority = ret.src[2].priority)
    /\ ret.op = "ne" =>
          (ret.ok <=> ~(ret.src[1].id = ret.src[2].id /\ ret.src[1].priority = ret.src[2].priority))
    /\ ret.op \in {"lt", "eq", "ne"} =>
          LET a == ret.src[1]
              b == ret.src[2]
          IN  Cardinality({k \in 1..3 : CASE k = 1 -> Packet_lt(a, b)
                                          [] k = 2 -> Packet_eq(a, b)
                                          [] k = 3 -> Packet_lt(b, a)}) = 1

C28_Witness ==
    /\ ret.op = "eq" /\ ret.ok
    /\ ret.src[1].data # ret.src[2].data /\ ret.src[1].length # ret.src[2].length
    /\ ret.src[1].priority > 0

\* the slot contents the history of successful enqueues and dequeues determines,
\* whichever operations made it: slot i holds the packet of the last cursor c of
\* that slot below tail, published (seq = c + 1) while c is resident and
\* moved-from and released (seq = c + capacity_) once it is consumed; a slot
\* never written holds the default packet and its index
SlotAfter(i) ==
    LET used == {c \in 0..(Len(enq_log) - 1) : SlotIndex(c) = i}
        c == CHOOSE c \in used : \A d \in used : d <= c
    IN  IF used = {} THEN [seq |-> i, packet |-> DefaultPacket]
        ELSE IF c >= Len(deq_log)
             THEN [seq |-> Wrap(c + 1), packet |-> enq_log[c + 1].pkt]
             ELSE [seq |-> Wrap(c + capacity_), packet |-> MovedFrom(enq_log[c + 1].pkt)]

\* C29 In single-threaded use try_enqueue and try_dequeue return what enqueue and
\* dequeue return (the reference FIFO's answer: refused iff full, absent iff
\* empty, packets in FIFO order), and between calls head, tail and every slot's
\* seq and packet are those the successful enqueues and dequeues determine,
\* whether they were made by the try or by the plain operations.
C29_TryAsPlainWhenAlone ==
    /\ ret.op \in {"try_enqueue", "try_dequeue"} => Matches
    /\ ret.op = "try_dequeue" /\ ret.ok => ret.pkts = <<deq_log[Len(deq_log)].pkt>>
    /\ Quiescent =>
          /\ head_seq_ = Len(deq_log) /\ tail_seq_ = Len(enq_log)
          /\ \A i \in Slots : seq[i] = SlotAfter(i).seq /\ packet[i] = SlotAfter(i).packet
          /\ \A k \in DOMAIN deq_log : deq_log[k].pkt = enq_log[k].pkt

\* a try_dequeue has just returned the second packet while a third is resident,
\* and more packets had been offered than were accepted
C29_Witness ==
    /\ ret.op = "try_dequeue" /\ ret.ok
    /\ Len(deq_log) = 2 /\ Len(enq_log) = 3
    /\ made[SeqThread].offered > 3

\* a step of thread t inside try_enqueue or try_dequeue
TryStep(t) ==
    \/ TryEnqSeq(t) \/ TryEnqCas(t) \/ TryEnqWrite(t)
    \/ TryDeqSeq(t) \/ TryDeqCas(t) \/ TryDeqRead(t)

\* C30 try_enqueue and try_dequeue make one attempt: after the cursor load the
\* call loads the slot's seq once, makes at most one compare-exchange, and
\* returns; it never waits and never goes back; and a call that fails (returns
\* false or nothing) has changed neither head, tail, any slot's seq nor any
\* slot's packet in any of its steps.
C30_TrySingleAttempt ==
    /\ [](\A t \in Threads :
             pc[t] \in {"te_seq", "te_cas", "te_write", "td_seq", "td_cas", "td_read"}
                => ENABLED TryStep(t))
    /\ [][\A t \in Threads :
             /\ (pc'[t] # pc[t] \/ loc'[t] # loc[t])
                   /\ {loc[t].op, loc'[t].op} \cap {"try_enqueue", "try_dequeue"} # {}
                => <<pc[t], pc'[t]>> \in
                      {<<"idle", "te_seq">>, <<"te_seq", "te_cas">>, <<"te_cas", "te_write">>,
                       <<"te_seq", "idle">>, <<"te_cas", "idle">>, <<"te_write", "idle">>,
                       <<"idle", "td_seq">>, <<"td_seq", "td_cas">>, <<"td_cas", "td_read">>,
                       <<"td_seq", "idle">>, <<"td_cas", "idle">>, <<"td_read", "idle">>}
             /\ pc'[t] # pc[t] /\ pc'[t] \in {"te_seq", "te_cas", "td_seq", "td_cas"}
                => UNCHANGED queue
             /\ pc'[t] # pc[t] /\ pc[t] \in {"te_seq", "te_cas", "td_seq", "td_cas"}
                   /\ pc'[t] = "idle"
                => UNCHANGED queue /\ ~ret'.ok
             /\ pc'[t] # pc[t] /\ pc[t] \in {"te_write", "td_read"} => ret'.ok
       ]_vars

\* a try_enqueue has just returned false although the queue was not full at any
\* time during the call: its one compare-exchange lost against another producer
C30_Witness ==
    /\ ret.op = "try_enqueue" /\ ~ret.ok /\ ~ret.full
    /\ Resident < capacity_

\* --------------------------------------------------------------- wraparound
\* a quiescent empty queue whose cursors stand at c: what as many enqueues, each
\* followed by a dequeue, as c counts (modulo 2^WordBits) leave behind; every
\* slot is released for the next cursor of its index and holds a moved-from
\* packet
EmptiedAt(c) ==
    /\ head_seq_ = c
    /\ tail_seq_ = c
    /\ seq = [i \in Slots |->
                 CHOOSE s \in {Wrap(c + k) : k \in 0..(capacity_ - 1)} : SlotIndex(s) = i]
    /\ packet = [i \in Slots |-> MovedFrom(DefaultPacket)]

\* one thread calling every operation on a queue whose cursors are within
\* WrapLead of 2^WordBits
StartNearWrap ==
    /\ \E k \in 1..WrapLead : EmptiedAt(Wrap(0 - k))
    /\ enable_stats_ = FALSE
    /\ stats_ = ZeroStats
    /\ pc = [t \in Threads |-> "idle"]
    /\ loc = [t \in Threads |-> IdleLoc]
    /\ ret = NoRes
    /\ budget = MaxCallsWrap
    /\ made = [t \in Threads |-> NoneMade]
    /\ enq_log = <<>>
    /\ deq_log = <<>>
    /\ accepted = EmptyBag
    /\ seen = [t \in Threads |-> NotSeen]
    /\ fifo = <<>>
    /\ expect = NoRes

SpecWrap == StartNearWrap /\ [][NextSeq]_vars

\* C31 The queue keeps its FIFO, full-detection and empty-detection behaviour
\* when head and tail wrap past 2^WordBits: in single-threaded use every
\* operation still returns what the reference FIFO returns, and between calls
\* the resident packets are the reference's.
C31_WrapKeepsFIFO ==
    /\ ret.op # "none" => Matches
    /\ Quiescent => ResidentPackets = fifo

\* C32 Every slot i holds a seq that is c (empty, awaiting the producer of cursor
\* c) or c + 1 (full, awaiting the consumer of cursor c) for a cursor c of that
\* slot; a slot's seq changes only from c to c + 1, by a producer holding the
\* reservation of cursor c, and from c + 1 to c + capacity_, by a consumer
\* holding the reservation of cursor c; so it never decreases.
C32_SeqProtocol ==
    /\ [](\A i \in Slots : SlotIndex(seq[i]) = i \/ SlotIndex(Wrap(seq[i] - 1)) = i)
    /\ [][\A i \in Slots :
             seq'[i] # seq[i] =>
                /\ seq'[i] > seq[i]
                /\ \E t \in Threads : \E h \in Holds(t) :
                      /\ SlotIndex(h[1]) = i
                      /\ \/ h[2] = "producer" /\ seq[i] = h[1] /\ seq'[i] = Wrap(h[1] + 1)
                         \/ /\ h[2] = "consumer" /\ seq[i] = Wrap(h[1] + 1)
                            /\ seq'[i] = Wrap(h[1] + capacity_)
                      /\ h \notin Holds(t)']_vars

\* slot 0 is full for the second time: its seq went 0, 1, capacity_, capacity_ + 1
C32_Witness ==
    /\ seq[0] = capacity_ + 1
    /\ Len(deq_log) > 0 /\ deq_log[1].cur = 0
    /\ \E k \in DOMAIN enq_log : enq_log[k].cur = capacity_

\* ------------------------------------------------- statistics, all operations
\* any number of threads, each calling any operation, stats enabled, no reset
NextAllStats ==
    \/ Next
    \/ \E t \in Threads :
          \/ EnqTail(t) \/ EnqCount(t) \/ EnqContend(t)
          \/ DeqHead(t) \/ DeqCount(t) \/ DeqContend(t)

SpecAllStats == Start(TRUE, MaxCallsAllStats) /\ [][NextAllStats]_vars

\* some thread moves from pc value a to pc value b in this step
Moves(a, b) == \E t \in Threads : pc[t] = a /\ pc'[t] = b

\* C33 With stats enabled and no reset, enqueue_attempts advances by one exactly
\* when an enqueue() call starts and enqueue_successes by one exactly when one
\* returns true (likewise dequeue_attempts and dequeue_successes for dequeue());
\* batch_enqueues and batch_dequeues advance by one exactly when a batch call
\* with a non-empty range starts; no step of try_enqueue or try_dequeue and no
\* other step of a batch call changes any of these counters, so packets moved
\* by try or batch operations are not reflected in the success counters.
C33_CountersFollowCalls ==
    [][LET Step(c, a, b) == stats_'[c] = stats_[c] + IF Moves(a, b) THEN 1 ELSE 0
       IN  /\ Step("enqueue_attempts", "idle", "enq_tail")
           /\ Step("enqueue_successes", "enq_count", "idle")
           /\ Step("dequeue_attempts", "idle", "deq_head")
           /\ Step("dequeue_successes", "deq_count", "idle")
           /\ Step("batch_enqueues", "idle", "eb_tail")
           /\ Step("batch_dequeues", "idle", "db_head")
           /\ \A t \in Threads :
                 /\ pc[t] = "idle" /\ loc'[t].op = "enqueue" => pc'[t] = "enq_tail"
                 /\ pc[t] = "idle" /\ loc'[t].op = "dequeue" => pc'[t] = "deq_head"
                 /\ pc[t] = "idle" /\ loc'[t].op = "enqueue_batch" => pc'[t] = "eb_tail"
                 /\ pc[t] = "idle" /\ loc'[t].op = "dequeue_batch" => pc'[t] = "db_head"
           /\ Moves("enq_count", "idle") => ret'.op = "enqueue" /\ ret'.ok
           /\ Moves("deq_count", "idle") => ret'.op = "dequeue" /\ ret'.ok
           /\ ret'.op = "enqueue" /\ ret'.ok /\ ret' # ret => Moves("enq_count", "idle")
           /\ ret'.op = "dequeue" /\ ret'.ok /\ ret' # ret => Moves("deq_count", "idle")
      ]_vars

\* every call has returned; three packets went in and two came out by try and
\* batch operations alone, and only the batch counters have moved
C33_Witness ==
    /\ Quiescent
    /\ Len(enq_log) = 3 /\ Len(deq_log) = 2
    /\ stats_.enqueue_attempts = 0 /\ stats_.dequeue_attempts = 0
    /\ stats_.enqueue_successes = 0 /\ stats_.dequeue_successes = 0
    /\ stats_.batch_enqueues = 1 /\ stats_.batch_dequeues = 1

\* C34 contention_events advances by one exactly when an enqueue that found its
\* slot behind (d < 0) sees tail - head < capacity_, or a dequeue that found
\* its slot behind sees head < tail, and goes on to retry; no other step changes
\* it: not the d > 0 path, not a failed compare-exchange, not a full or empty
\* return, no try or batch step; and the thread that counts one has a second
\* thread beside it that is inside a call or has reserved a cursor before, so
\* in single-threaded use the counter stays 0.
C34_ContentionCounted ==
       [][/\ stats_'.contention_events = stats_.contention_events +
                IF Moves("enq_contend", "enq_reload") \/ Moves("deq_contend", "deq_reload")
                THEN 1 ELSE 0
          /\ \A t \in Threads :
                /\ pc[t] = "enq_head" /\ pc'[t] # pc[t] =>
                      IF Wrap(loc[t].cur - head_seq_) < capacity_
                      THEN pc'[t] = "enq_contend"
                      ELSE pc'[t] = "idle" /\ ~ret'.ok
                /\ pc[t] = "deq_tail" /\ pc'[t] # pc[t] =>
                      IF loc[t].cur < tail_seq_
                      THEN pc'[t] = "deq_contend"
                      ELSE pc'[t] = "idle" /\ ~ret'.ok
                /\ pc[t] = "enq_contend" /\ pc'[t] # pc[t] => pc'[t] = "enq_reload"
                /\ pc[t] = "deq_contend" /\ pc'[t] # pc[t] => pc'[t] = "deq_reload"
                /\ pc'[t] \in {"enq_contend", "deq_contend"} /\ pc'[t] # pc[t] =>
                      pc[t] = (IF pc'[t] = "enq_contend" THEN "enq_head" ELSE "deq_tail")
                /\ pc'[t] = "enq_head" /\ pc'[t] # pc[t] =>
                      Signed(Wrap(seq[SlotIndex(loc[t].cur)] - loc[t].cur)) < 0
                /\ pc'[t] = "deq_tail" /\ pc'[t] # pc[t] =>
                      Signed(Wrap(seq[SlotIndex(loc[t].cur)] - Wrap(loc[t].cur + 1))) < 0
                /\ stats_'.contention_events # stats_.contention_events /\ pc'[t] # pc[t] =>
                      \E u \in Threads \ {t} :
                         \/ pc[u] # "idle"
                         \/ \E k \in DOMAIN enq_log : enq_log[k].by = u
                         \/ \E k \in DOMAIN deq_log : deq_log[k].by = u
         ]_vars

\* a dequeue has counted a contention event behind a producer that has reserved
\* but not yet published, and an enqueue has since been refused by the full queue
C34_Witness ==
    /\ stats_.contention_events = 1
    /\ ret.op = "enqueue" /\ ~ret.ok
    /\ \E t \in Threads : pc[t] \in {"deq_reload", "deq_seq", "deq_cas"}

\* ------------------------------------------------------------------ Backoff
MAX_SPINS == 16
MAX_YIELDS == 64

\* what Backoff::operator() does at count_ = n, and with how many pause hints
BackoffKind(n) ==
    IF n < MAX_SPINS THEN [op |-> "spin", val |-> Pow2(n)]
    ELSE IF n < MAX_SPINS + MAX_YIELDS THEN [op |-> "yield", val |-> 0]
    ELSE [op |-> "sleep", val |-> 0]

\* variant: count_ is advanced in the sleep branch too
BackoffCount_Always(n) == n + 1

\* count_ after Backoff::operator(): ++count_ in the spin and yield branches only
BackoffCount(n) == IF n < MAX_SPINS + MAX_YIELDS THEN n + 1 ELSE n

\* Backoff backoff; (count_ = 0), kept in cnt
BackoffNew(t) ==
    /\ pc[t] = "idle" /\ loc[t].op = "none"
    /\ UNCHANGED <<queue, enable_stats_, stats_, pc, ret, budget, made, history, seen,
                   reference>>
    /\ loc' = [loc EXCEPT ![t] = [IdleLoc EXCEPT !.op = "backoff", !.cnt = 0]]

\* backoff(): src is count_ before and after
BackoffInvoke(t) ==
    /\ Begin(t)
    /\ loc[t].op = "backoff"
    /\ UNCHANGED <<queue, enable_stats_, stats_, pc, made, history, seen, reference>>
    /\ loc' = [loc EXCEPT ![t].cnt = BackoffCount(loc[t].cnt)]
    /\ ret' = [NoRes EXCEPT !.op = BackoffKind(loc[t].cnt).op, !.by = t,
                            !.val = BackoffKind(loc[t].cnt).val,
                            !.src = <<loc[t].cnt, BackoffCount(loc[t].cnt)>>]

\* backoff.reset()
BackoffReset(t) ==
    /\ Begin(t)
    /\ loc[t].op = "backoff"
    /\ UNCHANGED <<queue, enable_stats_, stats_, pc, made, history, seen, reference>>
    /\ loc' = [loc EXCEPT ![t].cnt = 0]
    /\ ret' = [NoRes EXCEPT !.op = "reset", !.by = t, !.src = <<loc[t].cnt, 0>>]

NextBackoff ==
    \/ BackoffNew(SeqThread) \/ BackoffInvoke(SeqThread) \/ BackoffReset(SeqThread)

SpecBackoff == Start(FALSE, MaxCallsBackoff) /\ [][NextBackoff]_vars

\* what the step counter n selects: 2^n pause hints below MAX_SPINS, a yield
\* below MAX_SPINS + MAX_YIELDS, a sleep from there on
BackoffSelects ==
    /\ ret.op \in {"spin", "yield", "sleep"} =>
          /\ ret.op = "spin" <=> ret.src[1] < 16
          /\ ret.op = "yield" <=> 16 <= ret.src[1] /\ ret.src[1] < 80
          /\ ret.op = "sleep" <=> ret.src[1] >= 80
          /\ ret.val = IF ret.op = "spin" THEN 2 ^ ret.src[1] ELSE 0
    /\ ret.op = "reset" => ret.src[2] = 0 /\ loc[SeqThread].cnt = 0
    /\ loc[SeqThread].cnt = 0 => BackoffKind(loc[SeqThread].cnt) = [op |-> "spin", val |-> 1]

\* C35 (as stated) The invocation at step counter n spins 2^n pause hints for
\* n < 16, yields for 16 <= n < 80 and sleeps for n >= 80; every invocation
\* increments n, in the sleep range too; reset returns n to 0.
C35_EveryInvocationCounts ==
    /\ BackoffSelects
    /\ ret.op \in {"spin", "yield", "sleep"} => ret.src[2] = ret.src[1] + 1

\* C35 (amended) The invocation at step counter n spins 2^n pause hints for
\* n < 16, yields for 16 <= n < 80 and sleeps for n >= 80; an invocation
\* increments n in the spin and yield ranges and leaves it at 80 in the sleep
\* range, so n never exceeds 80; reset returns n to 0, after which the next
\* invocation spins once.
C35_CounterSaturates ==
    /\ BackoffSelects
    /\ ret.op \in {"spin", "yield"} => ret.src[2] = ret.src[1] + 1
    /\ ret.op = "sleep" => ret.src = <<80, 80>>
    /\ loc[SeqThread].cnt <= 80

\* a second sleep in a row: the invocation found the counter at 80 and left it
C35_Witness ==
    /\ ret.op = "sleep" /\ ret.src = <<80, 80>>
    /\ budget = MaxCallsBackoff - 82

\* ------------------------------------------------------ fair scheduling
\* threads calling enqueue and dequeue, every one of them scheduled fairly
SpecFairSingle ==
    /\ Start(FALSE, MaxCallsFair)
    /\ [][NextLockFree]_vars
    /\ \A t \in Threads : FairSingle(t)

\* C36 When every thread is scheduled fairly and makes finitely many calls,
\* every enqueue and dequeue call eventually returns: a failed compare-exchange,
\* a slot ahead (d > 0) or a slot behind while the queue is neither full nor
\* empty is retried, and no call retries for ever.
C36_SingleCallsReturn ==
    \A t \in Threads : (pc[t] # "idle") ~> (pc[t] = "idle")

\* transient contention: a dequeue found its slot behind while the queue is not
\* empty and is about to reload head, the slot's producer having reserved the
\* cursor and not yet published it
C36_Witness ==
    \E t, u \in Threads :
       /\ pc[t] = "deq_reload" /\ pc[u] = "enq_write"
       /\ loc[t].cur = loc[u].cur /\ head_seq_ = loc[t].cur
       /\ Len(deq_log) > 0

\* threads calling single and batch operations, every one of them scheduled
\* fairly
SpecFairBatch ==
    /\ Start(FALSE, MaxCallsFairBatch)
    /\ [][NextIsolated]_vars
    /\ \A t \in Threads : FairSingle(t) /\ FairBatch(t)

\* C37 Under fair scheduling, with batch and single operations mixed, every
\* thread waiting in enqueue_batch for slot.seq = t + i or in dequeue_batch for
\* slot.seq = h + i + 1 eventually sees that value, and every enqueue_batch and
\* dequeue_batch call eventually returns.
C37_BatchCallsReturn ==
    /\ \A t \in Threads :
          (pc[t] \in {"eb_tail", "eb_head", "eb_cas", "eb_fill",
                      "db_head", "db_tail", "db_cas", "db_drain"}) ~> (pc[t] = "idle")
    /\ \A t \in Threads :
          (pc[t] = "eb_fill" /\ Granted(t) = {}) ~> (pc[t] = "eb_fill" /\ Granted(t) # {})
    /\ \A t \in Threads :
          (pc[t] = "db_drain" /\ Granted(t) = {}) ~> (pc[t] = "db_drain" /\ Granted(t) # {})

\* a batch producer waits for a slot a consumer has reserved and not yet
\* released, while that consumer waits in dequeue_batch for nothing
C37_Witness ==
    \E t, u \in Threads :
       /\ pc[t] = "eb_fill" /\ Granted(t) = {}
       /\ pc[u] = "db_drain" /\ Granted(u) # {}
       /\ \E h \in Holds(t), g \in Granted(u) : SlotIndex(h[1]) = SlotIndex(g[1])

\* C38 A failed operation has no effect: no step of an enqueue, try_enqueue or
\* dequeue call changes head, tail, a slot's seq or a slot's packet except the
\* successful compare-exchange and the slot access that follows it, after which
\* the call returns success; so a call that returns false or absent has left the
\* queue as it was, and a refused enqueue leaves the caller's packet unmodified,
\* whether it was passed by reference or moved in.
C38_FailureHasNoEffect ==
    [][\A t \in Threads :
          pc'[t] # pc[t] /\ {loc[t].op, loc'[t].op} \cap {"enqueue", "try_enqueue", "dequeue"} # {}
          =>
             /\ pc[t] \notin {"enq_write", "te_write", "deq_read"}
                   /\ pc'[t] \notin {"enq_write", "te_write", "deq_read"}
                => UNCHANGED queue
             /\ pc[t] \in {"enq_write", "te_write", "deq_read"} => pc'[t] = "idle" /\ ret'.ok
             /\ pc'[t] = "idle" /\ ~ret'.ok =>
                   /\ UNCHANGED queue
                   /\ ret'.op = "enqueue" =>
                         /\ ret'.src.copy = Packet(loc[t].pkts[1].id)
                         /\ ret'.src.move = Packet(loc[t].pkts[1].id)
                   /\ ret'.op = "try_enqueue" => ret'.src = <<Packet(loc[t].pkts[1].id)>>
             /\ pc[t] # "idle" /\ pc'[t] # "idle" => loc'[t].pkts = loc[t].pkts
      ]_vars

\* the full queue has just refused an enqueue: the caller's packet is as it was
\* passed, and the packets enqueued before are resident
C38_Witness ==
    /\ ret.op = "enqueue" /\ ~ret.ok
    /\ ret.src.move = ret.src.copy /\ ret.src.move.id # 0
    /\ Resident = capacity_ /\ Quiescent
    /\ ResidentPackets = [k \in 1..capacity_ |-> enq_log[Len(enq_log) - capacity_ + k].pkt]

\* C39 Whenever no operation is in progress, every cursor c with head <= c < tail
\* has its slot at seq = c + 1 holding the packet enqueued at cursor c, and every
\* cursor c with tail <= c < head + capacity_ has its slot at seq = c, after any
\* interleaved history of single, try and batch operations.
C39_QuiescentSlots ==
    Quiescent =>
       /\ \A c \in head_seq_..(tail_seq_ - 1) :
             /\ seq[SlotIndex(c)] = c + 1
             /\ \E k \in DOMAIN enq_log :
                   enq_log[k].cur = c /\ packet[SlotIndex(c)] = enq_log[k].pkt
       /\ \A c \in tail_seq_..(head_seq_ + capacity_ - 1) : seq[SlotIndex(c)] = c

\* no operation is in progress after both threads have enqueued and dequeued,
\* batches among them; one packet is resident in a slot used for the second time
C39_Witness ==
    /\ Quiescent
    /\ Resident = 1 /\ head_seq_ >= capacity_
    /\ \E j, k \in DOMAIN enq_log : enq_log[j].by # enq_log[k].by /\ enq_log[k].off > 0
    /\ \E j, k \in DOMAIN deq_log : deq_log[j].by # deq_log[k].by

\* ------------------------------------------------------------------ C40
\* C40: an observer reports a state the queue was in: when size() returns 0,
\* so that empty() is true, tail - head was 0 at some instant of the call
C40_EmptyWasActual ==
    (ret.op = "size" /\ EmptyOf(ret.val)) => ret.empty


====
